---------------------------- MODULE Spec2Model ----------------------------
(***************************************************************************)
(* A model of url-monitor's backend: the alert state tracker               *)
(* (backend/alert_manager.py), the probe and the resource discovery        *)
(* (backend/network_monitor.py) over the shared SQLAlchemy session         *)
(* (backend/app.py, backend/database.py).                                  *)
(*                                                                         *)
(* Time is counted in whole minutes.  A nullable column holds <<>> for     *)
(* NULL and <<v>> for the value v.                                         *)
(***************************************************************************)
EXTENDS Integers, Sequences, FiniteSets, Bags, TLC

(***************************************************************************)
(* Bounds of the model.                                                    *)
(***************************************************************************)
\* The clock stops at MaxNow minutes.
MaxNow == 17
\* No down-streak fed to the tracker is longer than MaxStreak outcomes.
MaxStreak == 4
\* At most MaxRuns discovery runs are started.
MaxRuns == 2
\* A page references, and a capture holds, at most MaxResources requests.
MaxResources == 2
\* The scheduler's clock stops at MaxClock intervals.
MaxClock == 2

(***************************************************************************)
(* Configuration of the AlertManager, at the defaults of its constructor.  *)
(***************************************************************************)
\* os.getenv("SLACK_WEBHOOK_URL", <the hook>): the default is a non-empty URL.
slack_webhook_url == "https://hooks.slack.com/services/T08MWFDCY5C"
\* int(os.getenv("ALERT_FAILURE_THRESHOLD", "2"))
failure_threshold == 2
\* int(os.getenv("ALERT_COOLDOWN_MINUTES", "15"))
cooldown_minutes == 15

NULL == <<>>

\* The id of the one row of the urls table the tracker is fed outcomes of.
TargetIds == {1}
\* The ids a caller may pass: the row's, and one no row has.
CallerIds == {1, 2}

VARIABLES
    \* ---- the urls table (models.py, URL): id -> row
    urls,
    \* ---- the wall clock, datetime.now(), in minutes
    now,
    \* ---- the Slack webhook, as process_status_for_alerts' latest call left it:
    \* what that call POSTed ("none", "failure", "recovery") and whether the
    \* POST was accepted (raise_for_status passed)
    posted,
    delivered,
    \* flips at every call of process_status_for_alerts
    call_parity,
    \* the latest call's arguments and time: [url_id, is_up, at], or NULL
    \* before any call
    last_call,
    \* ---- the current down-streak of the outcomes fed for the target:
    \* downs (outcomes since the last up one), failure_posts (failure POSTs in
    \* it), suppressed (a threshold crossing met the cooldown), delivered (a
    \* failure POST of it was accepted)
    streak,
    \* the times of the latest accepted failure POST and of the one before it
    last_delivered_at,
    prev_delivered_at,
    \* ---- the failure POSTs that were not accepted: pending says the latest
    \* failure POST for the target was not accepted, skipped says a later down
    \* outcome of the streak of such a POST was processed, retried says the
    \* latest call POSTed a failure alert while one was pending
    missed_alert,
    \* ---- the calls of process_status_for_alerts that run at the same time,
    \* on threads of their own: `of` gives each thread's position, its
    \* outcome and the counter value it read; downs, ups and failure_posts
    \* count the down and up outcomes whose calls are over and the failure
    \* POSTs made
    alert_calls,
    \* ---- the subsequent_requests table (models.py, SubsequentRequest): the
    \* bag of its committed rows [url_id, target_url]
    subsequent_requests,
    \* ---- the url_statuses table (models.py, URLStatus): its committed rows
    \* in the order of their commits
    url_statuses,
    \* ---- the monitor's one Session (app.py lines 38-39): the bag of the
    \* SubsequentRequest objects added to it and not yet committed
    session_new,
    \* whether the store may reject an operation of the Session
    store_faulty,
    \* ---- the calls of check_url that run at the same time, on threads of
    \* their own: `of` gives each call's position and the URLStatus it built,
    \* finished lists the calls in the order their GETs ended, stored in the
    \* order their outcomes were committed
    probes,
    \* ---- the calls of start_monitoring, stop_monitoring and
    \* update_frequency that run at the same time, on the threads of the API's
    \* requests: `of` gives each call's operation, its position and the job it
    \* added, begun counts the calls
    reg_calls,
    \* ---- the discovery threads: thread id -> its position and locals
    threads,
    \* the number of discovery runs started
    runs,
    \* ---- the call of check_url under way or last made: its position, its
    \* arguments, the URLStatus it built, whether its GET failed
    check,
    \* ---- the columns of the urls table the API and the scheduler read:
    \* id -> NULL (no row) or <<[url, is_active, is_one_time, check_frequency]>>
    url_objs,
    \* ---- NetworkMonitor.jobs: target id -> NULL or <<the id of its job>>
    jobs,
    \* ---- NetworkMonitor.scheduler: the jobs of its job store, each
    \* [id, url_id, url, seconds, next_run_time]
    scheduler,
    \* ---- the call of the API or of the monitor under way or last made:
    \* [op, url_id, url_obj, pc, ret, checks, response, todo]
    call,
    \* the targets whose latest scheduling call was a stop_monitoring
    stopped,
    \* ---- the scheduler's clock, in units of a check interval
    clock

alert_vars == <<urls, now, posted, delivered, call_parity, last_call, streak,
                last_delivered_at, prev_delivered_at, missed_alert, alert_calls>>

\* The scheduler's and the API's.
sched_vars == <<url_objs, jobs, scheduler, call, stopped, clock>>

mon_vars == <<subsequent_requests, url_statuses, session_new, store_faulty, reg_calls, probes,
              threads, runs, check, sched_vars>>

\* What no step of a discovery thread changes.
beside_discovery == <<alert_vars, url_statuses, check, sched_vars>>

vars == <<urls, now, posted, delivered, call_parity, last_call, streak,
          last_delivered_at, prev_delivered_at, missed_alert, alert_calls,
          subsequent_requests, url_statuses, session_new, store_faulty, reg_calls, probes,
          threads, runs, check,
          url_objs, jobs, scheduler, call, stopped, clock>>

(***************************************************************************)
(* models.py: a row of the urls table, with the alert columns' defaults    *)
(* for the counters and the flags as given.                                *)
(***************************************************************************)
URL(alert_enabled, is_one_time, alert_recovery) ==
    [ alert_enabled        |-> alert_enabled,
      is_one_time          |-> is_one_time,
      alert_recovery       |-> alert_recovery,
      consecutive_failures |-> 0,
      last_alerted_at      |-> NULL ]

NoStreak == [downs |-> 0, failure_posts |-> 0, suppressed |-> FALSE, delivered |-> FALSE]

NoMissedAlert == [pending |-> FALSE, skipped |-> FALSE, retried |-> FALSE]

\* The threads process_status_for_alerts is called on at the same time.
AlertThreads == {1, 2}

\* No call of process_status_for_alerts under way on any of them.
NoAlertCalls ==
    [ of |-> [c \in AlertThreads |-> [pc |-> "idle", is_up |-> FALSE, loaded |-> 0]],
      downs |-> 0, ups |-> 0, failure_posts |-> 0 ]

(***************************************************************************)
(* alert_manager.py, send_failure_alert lines 50-52: the cooldown test.    *)
(***************************************************************************)
InCooldown(url) ==
    /\ url.last_alerted_at # NULL
    /\ now - url.last_alerted_at[1] < cooldown_minutes

\* Mutant of send_failure_alert: an accepted POST leaves last_alerted_at as it was.
send_failure_alert_unstamped(url, ok) ==
    IF slack_webhook_url = "" \/ InCooldown(url)
    THEN [url |-> url, posted |-> FALSE, delivered |-> FALSE]
    ELSE [url |-> url, posted |-> TRUE, delivered |-> ok]

\* Mutant of send_failure_alert: a POST that fails undoes the counting of the
\* outcome, as an exception leaving the call before line 42 would.
send_failure_alert_raises(url, ok) ==
    IF slack_webhook_url = "" \/ InCooldown(url)
    THEN [url |-> url, posted |-> FALSE, delivered |-> FALSE]
    ELSE IF ok
    THEN [url |-> [url EXCEPT !.last_alerted_at = <<now>>],
          posted |-> TRUE, delivered |-> TRUE]
    ELSE [url |-> [url EXCEPT !.consecutive_failures = @ - 1],
          posted |-> TRUE, delivered |-> FALSE]

\* Mutant of send_failure_alert: last_alerted_at is set before the POST, so
\* also when the POST is not accepted.
send_failure_alert_stamps_first(url, ok) ==
    IF slack_webhook_url = "" \/ InCooldown(url)
    THEN [url |-> url, posted |-> FALSE, delivered |-> FALSE]
    ELSE [url |-> [url EXCEPT !.last_alerted_at = <<now>>],
          posted |-> TRUE, delivered |-> ok]

\* Mutant of send_failure_alert: an accepted alert starts the count afresh.
send_failure_alert_resets_counter(url, ok) ==
    IF slack_webhook_url = "" \/ InCooldown(url)
    THEN [url |-> url, posted |-> FALSE, delivered |-> FALSE]
    ELSE IF ok
    THEN [url |-> [url EXCEPT !.last_alerted_at = <<now>>,
                              !.consecutive_failures = 0],
          posted |-> TRUE, delivered |-> TRUE]
    ELSE [url |-> url, posted |-> TRUE, delivered |-> FALSE]

(***************************************************************************)
(* alert_manager.py, send_failure_alert: with `ok` the webhook's answer to *)
(* the POST.  Yields the row as the call leaves it, whether a POST was     *)
(* made, and whether it was accepted.                                      *)
(***************************************************************************)
send_failure_alert(url, ok) ==
    IF slack_webhook_url = ""
    THEN [url |-> url, posted |-> FALSE, delivered |-> FALSE]
    ELSE IF InCooldown(url)
    THEN [url |-> url, posted |-> FALSE, delivered |-> FALSE]
    ELSE IF ok
    THEN [url |-> [url EXCEPT !.last_alerted_at = <<now>>],
          posted |-> TRUE, delivered |-> TRUE]
    ELSE [url |-> url, posted |-> TRUE, delivered |-> FALSE]

\* Mutant of send_recovery_alert: the recovery respects the cooldown too.
send_recovery_alert_cooldown(url, ok) ==
    IF slack_webhook_url = "" \/ InCooldown(url)
    THEN [posted |-> FALSE, delivered |-> FALSE]
    ELSE [posted |-> TRUE, delivered |-> ok]

(***************************************************************************)
(* alert_manager.py, send_recovery_alert: no cooldown test, no state.      *)
(***************************************************************************)
send_recovery_alert(url, ok) ==
    IF slack_webhook_url = ""
    THEN [posted |-> FALSE, delivered |-> FALSE]
    ELSE [posted |-> TRUE, delivered |-> ok]

\* Mutants of AtThreshold: an alert at every multiple of the threshold; an
\* alert at every failure from the threshold on.
AtThreshold_multiple(consecutive_failures) ==
    consecutive_failures % failure_threshold = 0

AtThreshold_ge(consecutive_failures) == consecutive_failures >= failure_threshold

(***************************************************************************)
(* alert_manager.py, process_status_for_alerts line 38: the failure alert  *)
(* is asked for when the counter equals the threshold.                     *)
(***************************************************************************)
AtThreshold(consecutive_failures) == consecutive_failures = failure_threshold

\* Mutant of WasAlerting: a recovery after any failure, below the threshold
\* too.
WasAlerting_any_failure(url) ==
    url.consecutive_failures >= 1 /\ url.alert_recovery

(***************************************************************************)
(* alert_manager.py, process_status_for_alerts line 29: the recovery alert *)
(* is asked for when the counter had reached the threshold.                *)
(***************************************************************************)
WasAlerting(url) ==
    url.consecutive_failures >= failure_threshold /\ url.alert_recovery

\* Mutant of Tracked: line 24 without its test of is_one_time.
Tracked_ignores_one_time(url_id) ==
    /\ url_id \in DOMAIN urls
    /\ urls[url_id].alert_enabled

(***************************************************************************)
(* alert_manager.py, process_status_for_alerts lines 23-25: the target is  *)
(* tracked when its row exists, has alerts enabled and is not one-time.    *)
(***************************************************************************)
Tracked(url_id) ==
    /\ url_id \in DOMAIN urls
    /\ urls[url_id].alert_enabled
    /\ ~urls[url_id].is_one_time

\* The failure POSTs not accepted, after one more down outcome of a tracked
\* target.
MissedAfter(post) ==
    [ pending |-> IF post.posted THEN ~post.delivered ELSE missed_alert.pending,
      skipped |-> \/ missed_alert.skipped
                  \/ streak.failure_posts >= 1 /\ ~streak.delivered,
      retried |-> missed_alert.pending /\ post.posted ]

\* The streak of the target's outcomes after one more outcome.
StreakAfter(is_up, post, suppressed) ==
    IF is_up THEN NoStreak
    ELSE [ downs         |-> streak.downs + 1,
           failure_posts |-> streak.failure_posts + (IF post.posted THEN 1 ELSE 0),
           suppressed    |-> streak.suppressed \/ suppressed,
           delivered     |-> streak.delivered \/ post.delivered ]

(***************************************************************************)
(* alert_manager.py, process_status_for_alerts(url_id, status): one call,  *)
(* with status.is_up = is_up and `ok` the webhook's answer should the call *)
(* POST.                                                                   *)
(***************************************************************************)
process_status_for_alerts(url_id, is_up, ok) ==
    /\ ~is_up => streak.downs < MaxStreak
    /\ call_parity' = 1 - call_parity
    /\ last_call' = <<[url_id |-> url_id, is_up |-> is_up, at |-> now]>>
    /\ UNCHANGED <<now, alert_calls>>
    /\ IF ~Tracked(url_id)
       THEN /\ UNCHANGED <<urls, last_delivered_at, prev_delivered_at>>
            /\ posted' = "none"
            /\ delivered' = FALSE
            /\ streak' = IF url_id \in TargetIds
                         THEN StreakAfter(is_up, [posted |-> FALSE, delivered |-> FALSE], FALSE)
                         ELSE streak
            /\ missed_alert' = [missed_alert EXCEPT !.retried = FALSE]
       ELSE LET url == urls[url_id] IN
            IF is_up
            THEN LET post == IF WasAlerting(url)
                             THEN send_recovery_alert(url, ok)
                             ELSE [posted |-> FALSE, delivered |-> FALSE]
                 IN /\ urls' = [urls EXCEPT ![url_id].consecutive_failures = 0]
                    /\ posted' = IF post.posted THEN "recovery" ELSE "none"
                    /\ delivered' = post.delivered
                    /\ streak' = NoStreak
                    /\ missed_alert' = [missed_alert EXCEPT !.retried = FALSE]
                    /\ UNCHANGED <<last_delivered_at, prev_delivered_at>>
            ELSE LET counted == [url EXCEPT !.consecutive_failures = @ + 1]
                     post == IF AtThreshold(counted.consecutive_failures)
                             THEN send_failure_alert(counted, ok)
                             ELSE [url |-> counted, posted |-> FALSE, delivered |-> FALSE]
                     suppressed == /\ AtThreshold(counted.consecutive_failures)
                                   /\ ~post.posted
                 IN /\ urls' = [urls EXCEPT ![url_id] = post.url]
                    /\ posted' = IF post.posted THEN "failure" ELSE "none"
                    /\ delivered' = post.delivered
                    /\ streak' = StreakAfter(FALSE, post, suppressed)
                    /\ missed_alert' = MissedAfter(post)
                    /\ IF post.delivered
                       THEN /\ last_delivered_at' = <<now>>
                            /\ prev_delivered_at' = last_delivered_at
                       ELSE UNCHANGED <<last_delivered_at, prev_delivered_at>>

\* A minute passes.
Tick ==
    /\ now < MaxNow
    /\ now' = now + 1
    /\ UNCHANGED <<urls, posted, delivered, call_parity, last_call, streak,
                   last_delivered_at, prev_delivered_at, missed_alert,
                   alert_calls>>

\* The threads discoveries run on.
ThreadIds == {1, 2}

\* A thread that runs nothing, and the locals of a discovery run: url_id and
\* arg_url are capture_subsequent_requests' (or the entry's) arguments, url
\* is fallback_capture_method's local url, ret says who called
\* fallback_capture_method, todo holds the requests or resources still to be
\* stored, added says new_records_count (new_resources_count) > 0, ph_ip and
\* on_error describe the placeholder being written, raised says the run
\* ended with an exception, file says whether the capture file of the run
\* (output_file, line 345) exists, waited flips each time a call the run is
\* blocked in goes on without returning.
IdleThread ==
    [ pc |-> "idle", url_id |-> 0, arg_url |-> <<>>, url |-> <<>>, ret |-> "top",
      todo |-> <<>>, added |-> FALSE, ph_ip |-> "", on_error |-> "",
      raised |-> FALSE, file |-> FALSE, waited |-> FALSE ]

\* No call of check_url.
NoCheck ==
    [pc |-> "idle", url_id |-> 0, url |-> <<>>, status |-> NULL, get_failed |-> FALSE]

\* The calls of check_url that overlap.
ProbeIds == {1, 2}

\* None of them made.
NoProbes ==
    [ of |-> [p \in ProbeIds |-> [pc |-> "idle", run |-> 0, url_id |-> 0,
                                   url |-> <<>>, status |-> NULL]],
      finished |-> <<>>, stored |-> <<>> ]

\* The threads of the API's requests that call the monitor at the same time.
RegThreads == {1, 2}

\* No call of the monitor under way on any of them.
NoRegCalls ==
    [ of |-> [c \in RegThreads |->
                 [pc |-> "idle", op |-> "", job |-> 0, run |-> 0]],
      begun |-> 0, added |-> 0 ]

\* The ids of the rows of the urls table the API makes.
UrlIds == {1, 2}

\* No call made.
NoCall ==
    [op |-> "none", url_id |-> 0, url_obj |-> NULL, pc |-> "done", ret |-> NULL,
     checks |-> 0, response |-> NULL, todo |-> <<>>]

\* network_monitor.py lines 16-20: a scheduler with no job, an empty jobs
\* mapping; no row in the urls table.
SchedulerAtRest ==
    /\ url_objs = [id \in UrlIds |-> NULL]
    /\ jobs = [id \in UrlIds |-> NULL]
    /\ scheduler = {}
    /\ call = NoCall
    /\ stopped = {}
    /\ clock = 0

\* No thread of the monitor, both of its tables empty.
MonitorAtRest ==
    /\ subsequent_requests = EmptyBag
    /\ url_statuses = <<>>
    /\ session_new = EmptyBag
    /\ store_faulty = FALSE
    /\ reg_calls = NoRegCalls
    /\ probes = NoProbes
    /\ threads = [t \in ThreadIds |-> IdleThread]
    /\ runs = 0
    /\ check = NoCheck
    /\ SchedulerAtRest

InitAlerts ==
    /\ MonitorAtRest
    /\ urls \in { [id \in TargetIds |-> URL(e, o, r)] : e \in BOOLEAN, o \in BOOLEAN, r \in BOOLEAN }
    /\ now = 0
    /\ posted = "none"
    /\ delivered = FALSE
    /\ call_parity = 0
    /\ last_call = NULL
    /\ streak = NoStreak
    /\ last_delivered_at = NULL
    /\ prev_delivered_at = NULL
    /\ missed_alert = NoMissedAlert
    /\ alert_calls = NoAlertCalls

NextAlerts ==
    \/ \E url_id \in CallerIds, is_up \in BOOLEAN, ok \in BOOLEAN :
          process_status_for_alerts(url_id, is_up, ok) /\ UNCHANGED mon_vars
    \/ Tick /\ UNCHANGED mon_vars

\* The tracker fed any sequence of outcomes, one call at a time, as time passes.
SpecAlerts == InitAlerts /\ [][NextAlerts]_vars

(***************************************************************************)
(* Claims about the alert state tracker.                                   *)
(***************************************************************************)
\* This step is a call of process_status_for_alerts for a tracked target.
TrackedCall ==
    /\ call_parity' # call_parity
    /\ Tracked(last_call'[1].url_id)

\* C1: for an alert-enabled, non-one-time target, a call POSTs a failure alert
\* exactly when its outcome is down, it raises consecutive_failures from
\* threshold-1 to threshold, and the target is not in cooldown
\* (last_alerted_at unset, or at least the cooldown old); and no down-streak
\* sees more than one failure POST, however long it lasts.
C1_FailureAlertOncePerStreak ==
    [][ TrackedCall =>
          LET id     == last_call'[1].url_id
              before == urls[id]
              cooling == /\ before.last_alerted_at # NULL
                         /\ now - before.last_alerted_at[1] < cooldown_minutes
          IN /\ (posted' = "failure") <=>
                    /\ ~last_call'[1].is_up
                    /\ before.consecutive_failures = failure_threshold - 1
                    /\ urls'[id].consecutive_failures = failure_threshold
                    /\ ~cooling
             /\ streak'.failure_posts <= 1 ]_vars

\* C1's case: a streak that got its failure alert went on past the threshold.
C1_Witness ==
    /\ Tracked(1)
    /\ streak.failure_posts = 1
    /\ streak.downs > failure_threshold
    /\ last_call # NULL /\ ~last_call[1].is_up

\* C2: for a tracked target, a call POSTs a recovery alert exactly when its
\* outcome is up, the down-streak it ends had reached the threshold, and
\* alert_recovery is set: whatever the cooldown, never on a second up outcome
\* (the streak is then empty), never after a streak below the threshold.
C2_RecoveryIffWasAlerting ==
    [][ TrackedCall =>
          LET id == last_call'[1].url_id
          IN (posted' = "recovery") <=>
                /\ last_call'[1].is_up
                /\ streak.downs >= failure_threshold
                /\ urls[id].alert_recovery ]_vars

\* C2's case: a recovery POSTed while the failure alert's cooldown still runs.
C2_Witness ==
    /\ Tracked(1)
    /\ posted = "recovery"
    /\ urls[1].last_alerted_at # NULL
    /\ now - urls[1].last_alerted_at[1] < cooldown_minutes

\* C3: two accepted failure POSTs for the target are at least the cooldown
\* apart, and a threshold crossing the cooldown suppressed still counted: the
\* counter equals the streak's length, which has reached the threshold.
C3_CooldownBetweenDeliveries ==
    /\ (last_delivered_at # NULL /\ prev_delivered_at # NULL)
          => last_delivered_at[1] - prev_delivered_at[1] >= cooldown_minutes
    /\ (Tracked(1) /\ streak.suppressed)
          => /\ urls[1].consecutive_failures = streak.downs
             /\ urls[1].consecutive_failures >= failure_threshold

\* C3's case: a second streak crossed the threshold within the cooldown of
\* the first one's delivered alert, and was suppressed.
C3_Witness ==
    /\ Tracked(1)
    /\ streak.suppressed
    /\ last_delivered_at # NULL
    /\ now - last_delivered_at[1] < cooldown_minutes

\* C4: a down-streak whose threshold crossing the cooldown suppressed gets no
\* failure POST at all, also not from the down outcomes that follow once the
\* cooldown is over.
C4_SuppressedAlertIsDropped ==
    (Tracked(1) /\ streak.suppressed) => streak.failure_posts = 0

\* C4's case: a down outcome of a suppressed streak, processed after the
\* cooldown ran out.
C4_Witness ==
    /\ Tracked(1)
    /\ streak.suppressed
    /\ streak.downs > failure_threshold
    /\ last_call # NULL /\ ~last_call[1].is_up
    /\ urls[1].last_alerted_at # NULL
    /\ last_call[1].at - urls[1].last_alerted_at[1] >= cooldown_minutes

\* C20: a call whose POST, of a failure or of a recovery, was not accepted
\* still leaves the counter updated from the outcome: one more on a down
\* outcome, 0 on an up one; last_alerted_at stays as it was.
C20_FailedSendKeepsStateUpdate ==
    [][ (TrackedCall /\ posted' # "none" /\ ~delivered')
        => LET id == last_call'[1].url_id IN
           /\ urls'[id].consecutive_failures =
                 IF last_call'[1].is_up THEN 0
                 ELSE urls[id].consecutive_failures + 1
           /\ urls'[id].last_alerted_at = urls[id].last_alerted_at ]_vars

\* C20's case: the failure POST at the threshold was not accepted and the
\* counter stands at the threshold.
C20_Witness ==
    /\ Tracked(1)
    /\ posted = "failure"
    /\ ~delivered
    /\ urls[1].consecutive_failures = failure_threshold
    /\ urls[1].last_alerted_at = NULL

\* This step is a tracked call whose down outcome brings the counter to the
\* threshold while the target is not in cooldown.
UnsuppressedCrossing ==
    /\ TrackedCall
    /\ ~last_call'[1].is_up
    /\ urls'[last_call'[1].url_id].consecutive_failures = failure_threshold
    /\ ~InCooldown(urls[last_call'[1].url_id])

\* C21: every threshold crossing the cooldown does not suppress sets
\* last_alerted_at to the time of the crossing, whether or not the POST of
\* the alert was accepted.
C21_CrossingStampsLastAlertedAt ==
    [][ UnsuppressedCrossing
        => urls'[last_call'[1].url_id].last_alerted_at = <<now>> ]_vars

\* C22: after a failure POST that was not accepted, no later down outcome of
\* the same streak POSTs anything, and the next down outcome that brings the
\* counter to the threshold (in a later streak) POSTs a failure alert again.
C22_MissedAlertNotRetriedInStreak ==
    [][ (TrackedCall /\ ~last_call'[1].is_up) =>
           /\ (streak.failure_posts >= 1 /\ ~streak.delivered)
                 => posted' = "none"
           /\ ( /\ missed_alert.pending
                /\ urls'[last_call'[1].url_id].consecutive_failures
                      = failure_threshold )
                 => posted' = "failure" ]_vars

\* C22's case: the streak of a refused failure POST went on with further
\* down outcomes, it ended, and a later streak reached the threshold.
C22_Witness ==
    /\ Tracked(1)
    /\ missed_alert.skipped
    /\ missed_alert.retried
    /\ posted = "failure"

\* C32: with the outcomes processed one at a time, the consecutive_failures
\* of an alert-enabled recurring target is never negative and equals the
\* number of down outcomes processed since the last up outcome: 0 right
\* after an up outcome.
C32_CounterIsStreakLength ==
    Tracked(1)
    => /\ urls[1].consecutive_failures >= 0
       /\ urls[1].consecutive_failures = streak.downs
       /\ (last_call # NULL /\ last_call[1].url_id = 1 /\ last_call[1].is_up)
             => urls[1].consecutive_failures = 0

\* C32's case: a streak that reached the threshold and was alerted ended
\* with an up outcome, and one down outcome has been processed since.
C32_Witness ==
    /\ Tracked(1)
    /\ last_delivered_at # NULL
    /\ last_call # NULL /\ last_call[1].url_id = 1 /\ ~last_call[1].is_up
    /\ streak.downs = 1
    /\ urls[1].consecutive_failures = 1

\* C35: a call that POSTs a recovery alert for a target ends a down-streak
\* in which a failure alert for that target was delivered: none is POSTed
\* for a streak whose failure alert the cooldown suppressed or the webhook
\* refused.
C35_RecoveryFollowsDeliveredFailure ==
    [][ (TrackedCall /\ posted' = "recovery") => streak.delivered ]_vars

\* C35 as amended: a call that POSTs a recovery alert for a target ends a
\* down-streak that reached the failure threshold, at which the failure
\* alert was POSTed (accepted or refused) or suppressed: none is POSTed for
\* a streak that stayed below the threshold.
C35_RecoveryFollowsThresholdCrossing ==
    [][ (TrackedCall /\ posted' = "recovery")
           => /\ streak.downs >= failure_threshold
              /\ (streak.failure_posts >= 1 \/ streak.suppressed) ]_vars

\* C35's case: a recovery alert was POSTed at the end of a streak whose
\* failure alert the webhook had refused.
C35_Witness ==
    /\ Tracked(1)
    /\ posted = "recovery"
    /\ last_call # NULL /\ last_call[1].url_id = 1 /\ last_call[1].is_up
    /\ missed_alert.pending
    /\ urls[1].last_alerted_at = NULL

\* The row url_id has alerts switched off or is of a one-time target.
Bypassed(url_id) ==
    /\ url_id \in DOMAIN urls
    /\ (~urls[url_id].alert_enabled \/ urls[url_id].is_one_time)

\* C30: a call of process_status_for_alerts for a target whose alert_enabled
\* is false or whose is_one_time is true, with an up or a down outcome,
\* leaves every row of urls as it was (consecutive_failures and
\* last_alerted_at among its fields) and POSTs nothing.
C30_BypassedTargetUntouched ==
    [][ (call_parity' # call_parity /\ Bypassed(last_call'[1].url_id))
           => /\ urls' = urls
              /\ posted' = "none"
              /\ delivered' = FALSE ]_vars

\* C30's case: a one-time target with alerts enabled was given down outcomes
\* up to the threshold and its counter is still 0.
C30_Witness ==
    /\ urls[1].alert_enabled
    /\ urls[1].is_one_time
    /\ last_call # NULL
    /\ last_call[1].url_id = 1
    /\ ~last_call[1].is_up
    /\ streak.downs >= failure_threshold
    /\ urls[1].consecutive_failures = 0
    /\ urls[1].last_alerted_at = NULL
    /\ posted = "none"

(***************************************************************************)
(* Resource discovery: network_monitor.py, capture_subsequent_requests and *)
(* fallback_capture_method, a step per operation of the shared Session.    *)
(*                                                                         *)
(* A URL string is the sequence of its parts: "https://a.test/s.js" is     *)
(* <<"https://", "a.test", "/s.js">>, "a.test" is <<"a.test">>, ""  is     *)
(* <<>>.                                                                   *)
(***************************************************************************)
SchemeParts == {"http://", "https://"}
HostParts == {"a.test", "cdn.test"}

\* url.startswith(('http://', 'https://'))
startswith_scheme(url) == Len(url) > 0 /\ url[1] \in SchemeParts

\* urlparse(url).scheme and urlparse(url).netloc
scheme(url) == IF startswith_scheme(url) THEN url[1] ELSE ""

netloc(url) ==
    IF startswith_scheme(url) /\ Len(url) >= 2 /\ url[2] \in HostParts
    THEN url[2] ELSE ""

\* fallback_capture_method lines 91-93: a non-empty URL with no scheme gets
\* 'http://' in front.
with_scheme(url) ==
    IF url # <<>> /\ ~startswith_scheme(url) THEN <<"http://">> \o url ELSE url

\* The URLs a discovery is run for: well-formed, without scheme, a bare
\* path, empty.
TargetUrls == { <<"http://", "a.test">>, <<"a.test">>, <<"/p">>, <<>> }

\* The ids discoveries are run for.
MonitoredIds == {1, 2}

\* What a fetched page references (after urljoin), and the URLs
\* parse_capture_file yields per packet ('Unknown' for a packet with no HTTP
\* request in it).
PageResources == { <<"http://", "a.test", "/s.js">>, <<"http://", "cdn.test", "/i.png">> }

CapturedRequests == { <<"Unknown">>, <<"http://", "a.test", "/s.js">> }

\* The sequences over S of length lo .. hi.
SeqsOf(S, lo, hi) == UNION { [1 .. n -> S] : n \in lo .. hi }

\* models.py, SubsequentRequest: the two columns the discovery queries by.
\* The others (ip_address, resource_type, state_type, protocol, timestamp)
\* are written and never read by it.
SubsequentRequest(url_id, target_url) ==
    [url_id |-> url_id, target_url |-> target_url]

\* network_monitor.py, _url_exists_for_monitor: a query of the committed rows;
\* database.py line 12 sets autoflush=False, so the Session's pending objects
\* are not flushed for it and the query does not see them.
url_exists_for_monitor(url_id, target_url) ==
    \E r \in BagToSet(subsequent_requests) :
        r.url_id = url_id /\ r.target_url = target_url

\* Session.add and Session.commit on the monitor's Session.
session_add(row) == session_new (+) SetToBag({row})

session_commit == subsequent_requests (+) session_new

\* Whether an operation of the Session raises: only a faulty store's may.
StoreFaults == IF store_faulty THEN BOOLEAN ELSE {FALSE}

\* The run of thread `th` is over; ph_ip keeps the ip_address of the
\* placeholder it ended with, if it ended with one, and file what became of
\* its capture file.
Finished(th, raised) ==
    [IdleThread EXCEPT !.pc = "done", !.url_id = th.url_id, !.raised = raised,
                       !.ph_ip = th.ph_ip, !.file = th.file]

\* Mutant of EnterFallback: a capture that failed ends the discovery run.
EnterFallback_gives_up(th, ret) == Finished(th, TRUE)

\* capture_subsequent_requests calls fallback_capture_method(url_id, url).
EnterFallback(th, ret) ==
    [th EXCEPT !.pc = "fallback", !.ret = ret, !.url = th.arg_url,
               !.todo = <<>>, !.added = FALSE, !.ph_ip = "", !.on_error = ""]

\* fallback_capture_method is over, normally or (exc) with an exception:
\* network_monitor.py lines 430-451 for a call from capture_subsequent_requests.
\* An exception of the call in the try block (lines 328-428) reaches the
\* handler of line 430, which calls the fallback again; an exception of that
\* call is answered with the last-resort row of lines 439-449, added with no
\* query before it.
Returned(th, exc) ==
    IF ~exc THEN Finished(th, FALSE)
    ELSE CASE th.ret = "top"         -> Finished(th, TRUE)
           [] th.ret = "capture_try" -> EnterFallback(th, "h430")
           [] th.ret = "h430"        ->
                [th EXCEPT !.pc = "ph_add", !.url = th.arg_url,
                           !.ph_ip = "Could not determine",
                           !.on_error = "last_resort"]

\* Mutant of HandlerPass: the handler's own failure is raised again.
HandlerPass_reraise(th) == Returned(th, TRUE)

\* network_monitor.py lines 265-266 and 283-284: `except: pass` around the
\* placeholder of a handler of fallback_capture_method.
HandlerPass(th) == Returned(th, FALSE)

\* Mutant of Placeholder: the placeholder is left out.
Placeholder_left_out(th, url, ip, on_error) == Returned(th, FALSE)

\* A placeholder row for `url` is to be written.
Placeholder(th, url, ip, on_error) ==
    [th EXCEPT !.pc = "ph_check", !.url = url, !.ph_ip = ip,
               !.on_error = on_error, !.todo = <<>>, !.added = FALSE]

\* A Session operation of a placeholder raised: in the try block the handler
\* of line 267 writes the "Error" placeholder; in a handler it is passed over.
PlaceholderFailed(th) ==
    CASE th.on_error = "handler"     -> Placeholder(th, th.url, "Error", "pass")
      [] th.on_error = "pass"        -> HandlerPass(th)
      [] th.on_error = "last_resort" -> Finished(th, FALSE)

\* network_monitor.py, check_url lines 35-50 / a direct call: a discovery for
\* (url_id, url) starts on thread t, in capture_subsequent_requests or in
\* fallback_capture_method.
StartDiscovery(t, url_id, url, entry) ==
    /\ runs < MaxRuns
    /\ threads[t].pc \in {"idle", "done"}
    /\ threads' = [threads EXCEPT ![t] =
                     [IdleThread EXCEPT !.pc = entry, !.url_id = url_id,
                                        !.arg_url = url, !.url = url]]
    /\ runs' = runs + 1
    /\ UNCHANGED <<subsequent_requests, session_new, store_faulty, reg_calls, probes, beside_discovery>>

\* What the capture attempt of `url` may come to.
CaptureOutcomes(url) ==
    IF url = <<>> THEN {"invalid"}
    ELSE IF scheme(url) = "" \/ netloc(url) = "" THEN {"no_netloc"}
    ELSE {"dns_failed", "no_tcpdump", "capture_error", "no_output",
          "empty_output", "nothing_parsed", "no_tshark", "parsed"}

\* Whether the capture file exists when the attempt is over. tcpdump's
\* file that is still empty at line 376 is not removed before the fallback
\* is called (lines 376-379); when tshark cannot be run, subprocess.run of
\* line 473 raises into the handler of line 566, past the os.remove of line
\* 562. On the other paths the file was never made, parse_capture_file
\* removed it (lines 561-562), or the handler of line 419 did (422-424).
LeavesFile(outcome) == outcome \in {"empty_output", "no_tshark"}

\* network_monitor.py, capture_subsequent_requests lines 315-391: everything
\* before the first query.  `parsed` is what parse_capture_file returned.
CaptureAttempt(t, outcome, parsed) ==
    LET th == threads[t] IN
    /\ th.pc = "capture"
    /\ outcome \in CaptureOutcomes(th.arg_url)
    /\ threads' = [threads EXCEPT ![t] =
          CASE outcome = "invalid" -> EnterFallback(th, "h430")
            [] outcome = "parsed"  -> [th EXCEPT !.pc = "cap_check", !.todo = parsed]
            [] OTHER               -> [EnterFallback(th, "capture_try")
                                         EXCEPT !.file = LeavesFile(outcome)]]
    /\ UNCHANGED <<subsequent_requests, session_new, store_faulty, reg_calls, probes, runs, beside_discovery>>

\* The capture loop after one request: on to the next, or to the commit of
\* lines 413-414, which is made only if something was added.
AfterCaptured(th, added) ==
    IF Len(th.todo) > 1
    THEN [th EXCEPT !.pc = "cap_check", !.todo = Tail(th.todo), !.added = added]
    ELSE IF added
    THEN [th EXCEPT !.pc = "cap_commit", !.todo = <<>>, !.added = TRUE]
    ELSE Finished(th, FALSE)

\* capture_subsequent_requests lines 394-398: the query for one request.  An
\* exception goes to the handler of line 419, which calls the fallback.
CaptureCheck(t, fails) ==
    LET th == threads[t] IN
    /\ th.pc = "cap_check"
    /\ threads' = [threads EXCEPT ![t] =
          IF fails THEN EnterFallback(th, "capture_try")
          ELSE IF url_exists_for_monitor(th.url_id, th.todo[1])
          THEN AfterCaptured(th, th.added)
          ELSE [th EXCEPT !.pc = "cap_add"]]
    /\ UNCHANGED <<subsequent_requests, session_new, store_faulty, reg_calls, probes, runs, beside_discovery>>

\* capture_subsequent_requests lines 400-410: the row is added.
CaptureAdd(t) ==
    LET th == threads[t] IN
    /\ th.pc = "cap_add"
    /\ session_new' = session_add(SubsequentRequest(th.url_id, th.todo[1]))
    /\ threads' = [threads EXCEPT ![t] = AfterCaptured(th, TRUE)]
    /\ UNCHANGED <<subsequent_requests, store_faulty, reg_calls, probes, runs, beside_discovery>>

\* capture_subsequent_requests lines 413-414: the commit.  A failed commit
\* rolls the Session back and goes to the handler of line 419.
CaptureCommit(t, fails) ==
    LET th == threads[t] IN
    /\ th.pc = "cap_commit"
    /\ IF fails
       THEN /\ session_new' = EmptyBag
            /\ threads' = [threads EXCEPT ![t] = EnterFallback(th, "capture_try")]
            /\ UNCHANGED subsequent_requests
       ELSE /\ subsequent_requests' = session_commit
            /\ session_new' = EmptyBag
            /\ threads' = [threads EXCEPT ![t] = Finished(th, FALSE)]
    /\ UNCHANGED <<store_faulty, reg_calls, probes, runs, beside_discovery>>

\* What the fallback's fetch of `url` (already with its scheme) may come to.
FallbackOutcomes(url) ==
    {"import_error"} \cup
    ( IF netloc(with_scheme(url)) = "" THEN {"invalid"}
      ELSE {"request_failed", "error", "non_html", "html"} )

\* network_monitor.py, fallback_capture_method lines 87-182: everything
\* before the first query.  `resources` is what the page references.
FallbackAttempt(t, outcome, resources) ==
    LET th    == threads[t]
        fixed == with_scheme(th.url)
    IN
    /\ th.pc = "fallback"
    /\ outcome \in FallbackOutcomes(th.url)
    /\ threads' = [threads EXCEPT ![t] =
          CASE outcome = "import_error" ->
                 Placeholder(th, th.url, "Dependencies Missing", "pass")
            [] outcome = "invalid" ->
                 Placeholder(th, fixed, "Invalid URL", "handler")
            [] outcome = "request_failed" ->
                 Placeholder(th, fixed, "Request Failed", "handler")
            [] outcome = "error" ->
                 Placeholder(th, fixed, "Error", "pass")
            [] outcome = "non_html" ->
                 Placeholder(th, fixed, "Unknown", "handler")
            [] outcome = "html" ->
                 [th EXCEPT !.pc = "fb_check", !.url = fixed, !.added = FALSE,
                            !.todo = IF resources = <<>> THEN <<fixed>>
                                     ELSE resources]]
    /\ UNCHANGED <<subsequent_requests, session_new, store_faulty, reg_calls, probes, runs, beside_discovery>>

\* The fallback loop after one resource: on to the next, or to the commit of
\* lines 214-215, which is made only if something was added.
AfterResource(th, added) ==
    IF Len(th.todo) > 1
    THEN [th EXCEPT !.pc = "fb_check", !.todo = Tail(th.todo), !.added = added]
    ELSE IF added
    THEN [th EXCEPT !.pc = "fb_commit", !.todo = <<>>, !.added = TRUE]
    ELSE Returned(th, FALSE)

\* fallback_capture_method lines 185-189: the query for one resource.  An
\* exception is caught per resource (line 211) and the loop goes on.
FallbackCheck(t, fails) ==
    LET th == threads[t] IN
    /\ th.pc = "fb_check"
    /\ threads' = [threads EXCEPT ![t] =
          IF fails \/ url_exists_for_monitor(th.url_id, th.todo[1])
          THEN AfterResource(th, th.added)
          ELSE [th EXCEPT !.pc = "fb_add"]]
    /\ UNCHANGED <<subsequent_requests, session_new, store_faulty, reg_calls, probes, runs, beside_discovery>>

\* fallback_capture_method lines 191-210: the resource's host is resolved
\* ('Unknown' when that fails) and the row is added.
FallbackAdd(t) ==
    LET th == threads[t] IN
    /\ th.pc = "fb_add"
    /\ session_new' = session_add(SubsequentRequest(th.url_id, th.todo[1]))
    /\ threads' = [threads EXCEPT ![t] = AfterResource(th, TRUE)]
    /\ UNCHANGED <<subsequent_requests, store_faulty, reg_calls, probes, runs, beside_discovery>>

\* fallback_capture_method lines 214-215: the commit.  A failed commit rolls
\* the Session back and goes to the handler of line 267.
FallbackCommit(t, fails) ==
    LET th == threads[t] IN
    /\ th.pc = "fb_commit"
    /\ IF fails
       THEN /\ session_new' = EmptyBag
            /\ threads' = [threads EXCEPT ![t] =
                             Placeholder(th, th.url, "Error", "pass")]
            /\ UNCHANGED subsequent_requests
       ELSE /\ subsequent_requests' = session_commit
            /\ session_new' = EmptyBag
            /\ threads' = [threads EXCEPT ![t] = Returned(th, FALSE)]
    /\ UNCHANGED <<store_faulty, reg_calls, probes, runs, beside_discovery>>

\* The query before a placeholder (lines 100, 221, 236, 253, 271).
PlaceholderCheck(t, fails) ==
    LET th == threads[t] IN
    /\ th.pc = "ph_check"
    /\ threads' = [threads EXCEPT ![t] =
          IF fails THEN PlaceholderFailed(th)
          ELSE IF url_exists_for_monitor(th.url_id, th.url)
          THEN Returned(th, FALSE)
          ELSE [th EXCEPT !.pc = "ph_add"]]
    /\ UNCHANGED <<subsequent_requests, session_new, store_faulty, reg_calls, probes, runs, beside_discovery>>

\* The placeholder row is added (lines 101-110, 222-231, 237-246, 254-263,
\* 272-281, 439-448).
PlaceholderAdd(t) ==
    LET th == threads[t] IN
    /\ th.pc = "ph_add"
    /\ session_new' = session_add(SubsequentRequest(th.url_id, th.url))
    /\ threads' = [threads EXCEPT ![t].pc = "ph_commit"]
    /\ UNCHANGED <<subsequent_requests, store_faulty, reg_calls, probes, runs, beside_discovery>>

\* The placeholder's commit (lines 111, 232, 247, 264, 282, 449).
PlaceholderCommit(t, fails) ==
    LET th == threads[t] IN
    /\ th.pc = "ph_commit"
    /\ IF fails
       THEN /\ session_new' = EmptyBag
            /\ threads' = [threads EXCEPT ![t] = PlaceholderFailed(th)]
            /\ UNCHANGED subsequent_requests
       ELSE /\ subsequent_requests' = session_commit
            /\ session_new' = EmptyBag
            /\ threads' = [threads EXCEPT ![t] = Returned(th, FALSE)]
    /\ UNCHANGED <<store_faulty, reg_calls, probes, runs, beside_discovery>>

\* The sequences of `seqs` that hold nothing twice.
NoRepeats(seqs) ==
    { q \in seqs : \A i, j \in 1 .. Len(q) : q[i] = q[j] => i = j }

\* What captures may hold and pages may reference.
Captures == SeqsOf(CapturedRequests, 1, MaxResources)

Pages == SeqsOf(PageResources, 0, MaxResources)

\* A step of the discovery run of thread t, its captures and pages drawn
\* from `captures` and `pages`.
DiscoveryStep(t, captures, pages) ==
    \/ \E outcome \in {"invalid", "no_netloc", "dns_failed", "no_tcpdump",
                       "capture_error", "no_output", "empty_output",
                       "nothing_parsed", "no_tshark", "parsed"},
          parsed \in captures :
          CaptureAttempt(t, outcome, parsed)
    \/ \E fails \in StoreFaults : CaptureCheck(t, fails)
    \/ CaptureAdd(t)
    \/ \E fails \in StoreFaults : CaptureCommit(t, fails)
    \/ \E outcome \in {"import_error", "invalid", "request_failed", "error",
                       "non_html", "html"},
          resources \in pages :
          FallbackAttempt(t, outcome, resources)
    \/ \E fails \in StoreFaults : FallbackCheck(t, fails)
    \/ FallbackAdd(t)
    \/ \E fails \in StoreFaults : FallbackCommit(t, fails)
    \/ \E fails \in StoreFaults : PlaceholderCheck(t, fails)
    \/ PlaceholderAdd(t)
    \/ \E fails \in StoreFaults : PlaceholderCommit(t, fails)

AlertsAtRest ==
    /\ urls = [id \in TargetIds |-> URL(FALSE, FALSE, TRUE)]
    /\ now = 0
    /\ posted = "none"
    /\ delivered = FALSE
    /\ call_parity = 0
    /\ last_call = NULL
    /\ streak = NoStreak
    /\ last_delivered_at = NULL
    /\ prev_delivered_at = NULL
    /\ missed_alert = NoMissedAlert
    /\ alert_calls = NoAlertCalls

InitDiscovery == AlertsAtRest /\ MonitorAtRest

\* Discovery runs one after another, on one thread: a run starts when the
\* one before it is over.
NextDiscoverySeq ==
    \/ \E url_id \in MonitoredIds, url \in TargetUrls,
          entry \in {"capture", "fallback"} :
          StartDiscovery(1, url_id, url, entry)
    \/ DiscoveryStep(1, Captures, Pages)

SpecDiscoverySeq == InitDiscovery /\ [][NextDiscoverySeq]_vars

\* The same, over a store that may reject any operation.
InitDiscoveryFaulty ==
    /\ AlertsAtRest
    /\ subsequent_requests = EmptyBag
    /\ url_statuses = <<>>
    /\ session_new = EmptyBag
    /\ store_faulty = TRUE
    /\ reg_calls = NoRegCalls
    /\ probes = NoProbes
    /\ threads = [t \in ThreadIds |-> IdleThread]
    /\ runs = 0
    /\ check = NoCheck
    /\ SchedulerAtRest

\* Runs one after another for one target.
NextDiscoverySeqFaulty ==
    \/ \E url \in TargetUrls, entry \in {"capture", "fallback"} :
          StartDiscovery(1, 1, url, entry)
    \/ DiscoveryStep(1, Captures, Pages)

SpecDiscoverySeqFaulty == InitDiscoveryFaulty /\ [][NextDiscoverySeqFaulty]_vars

\* Discoveries of one target on two threads at once; no capture and no page
\* holds a URL twice.
NextDiscovery ==
    \/ \E t \in ThreadIds, url \in TargetUrls, entry \in {"capture", "fallback"} :
          StartDiscovery(t, 1, url, entry)
    \/ \E t \in ThreadIds :
          DiscoveryStep(t, NoRepeats(Captures), NoRepeats(Pages))

SpecDiscovery == InitDiscovery /\ [][NextDiscovery]_vars

(***************************************************************************)
(* Claims about the resource discovery.                                    *)
(***************************************************************************)
\* The committed rows for url_id.
RecordsOf(url_id) == { r \in BagToSet(subsequent_requests) : r.url_id = url_id }

\* C6: after discovery runs executed one after another, no two stored
\* SubsequentRequest rows have the same (url_id, target_url).
C6_NoDuplicateRecords ==
    \A r \in BagToSet(subsequent_requests) : CopiesIn(r, subsequent_requests) = 1

\* C7: the same under every interleaving of two discovery threads of one
\* target, none of whose captures and pages holds a URL twice: the query
\* followed by the insert never lets both threads insert the same pair.
C7_NoDuplicateRecordsConcurrently ==
    \A r \in BagToSet(subsequent_requests) : CopiesIn(r, subsequent_requests) <= 1

\* C38: one fallback discovery of a page that references a resource URL
\* more than once adds at most one row for that URL: when the run comes to
\* its commit, the rows it added hold no (url_id, target_url) twice.
C38_FallbackRunAddsUrlOnce ==
    \A t \in ThreadIds :
        threads[t].pc = "fb_commit"
        => \A r \in BagToSet(session_new) : CopiesIn(r, session_new) <= 1

\* The entries of what parse_capture_file returned that are HTTP requests:
\* a packet without one is given the URL 'Unknown' (lines 512-513).
HttpRequests(parsed) ==
    { i \in 1..Len(parsed) : parsed[i] # <<"Unknown">> }

\* C33: a capture that completes without an HTTP request parsed from its
\* frames goes to the fallback strategy: the capture branch sets out to
\* store records only when at least one HTTP request was parsed.
C33_CaptureStoresOnlyParsedHttp ==
    [][ \A t \in ThreadIds :
          (threads[t].pc = "capture" /\ threads'[t].pc = "cap_check")
             => HttpRequests(threads'[t].todo) # {} ]_vars

\* C27: once a discovery run is over, the capture file its capture attempt
\* made no longer exists, whatever the attempt came to.
C27_NoCaptureFileLeft ==
    \A t \in ThreadIds : threads[t].pc = "done" => ~threads[t].file

C9_DiscoveryNeverRaises ==
    \A t \in ThreadIds : ~threads[t].raised

\* C9's case: a run whose every store operation failed is over, with no row
\* written and no exception raised.
C9_Witness ==
    /\ store_faulty
    /\ threads[1].pc = "done"
    /\ ~threads[1].raised
    /\ RecordsOf(threads[1].url_id) = {}

(***************************************************************************)
(* network_monitor.py, check_url: the check of one target.                 *)
(***************************************************************************)
\* The URLs check_url is called with: one with a scheme, one without.
MonitorUrls == { <<"http://", "a.test">>, <<"a.test">> }

\* Status codes of a response, on both sides of line 61's comparison. An
\* interim response other than 100 Continue (103 Early Hints) reaches the
\* caller as the response's status_code.
StatusCodes == {103, 200, 399, 400, 500}

\* time.time() - start_time of lines 53-55, in whole units.
ResponseTimes == {1}

\* models.py, URLStatus (id and timestamp are the store's).
URLStatus(url_id, status_code, response_time, is_up, error_message) ==
    [url_id |-> url_id, status_code |-> status_code,
     response_time |-> response_time, is_up |-> is_up,
     error_message |-> error_message]

\* Mutant of FailedStatus: the row of a response, for a failed GET.
FailedStatus_as_response(url_id) == URLStatus(url_id, 500, 1, FALSE, NULL)

\* Lines 68-75: the row the handler builds from the exception.
FailedStatus(url_id) == URLStatus(url_id, 0, 0, FALSE, <<"str(e)">>)

\* Line 54: whether requests.get(url, timeout=10) may raise, and may answer.
\* A URL without a scheme raises MissingSchema; any other may be answered,
\* time out or fail.
GetRaises(url) == IF scheme(url) = "" THEN {TRUE} ELSE BOOLEAN

\* Lines 32-50: check_url(url_id, url) is called; it starts the discovery on
\* the free thread t before the GET. `spawn` is what the two Thread starts came to:
\* the capture thread, the fallback thread when starting the first raised,
\* or none when starting both raised, which the handler of line 68 takes.
CheckStart(url_id, url, t, spawn) ==
    /\ check.pc \in {"idle", "returned", "raised"}
    /\ runs < MaxRuns
    /\ runs' = runs + 1
    /\ threads[t].pc \in {"idle", "done"}
    /\ IF spawn = "none"
       THEN /\ check' = [pc |-> "record", url_id |-> url_id, url |-> url,
                         status |-> <<FailedStatus(url_id)>>, get_failed |-> FALSE]
            /\ UNCHANGED threads
       ELSE /\ threads' = [threads EXCEPT ![t] =
                             [IdleThread EXCEPT !.pc = spawn, !.url_id = url_id,
                                                !.arg_url = url, !.url = url]]
            /\ check' = [pc |-> "probe", url_id |-> url_id, url |-> url,
                         status |-> NULL, get_failed |-> FALSE]
    /\ UNCHANGED <<alert_vars, subsequent_requests, url_statuses, session_new,
                   store_faulty, reg_calls, probes>>

\* Lines 52-75: the GET and the URLStatus built from its response, or from
\* the exception it raised.
CheckProbe(raises, status_code, response_time) ==
    /\ check.pc = "probe"
    /\ raises \in GetRaises(check.url)
    /\ check' = [check EXCEPT
                   !.pc = "record",
                   !.get_failed = raises,
                   !.status = IF raises
                              THEN <<FailedStatus(check.url_id)>>
                              ELSE <<URLStatus(check.url_id, status_code,
                                               response_time, status_code < 400,
                                               NULL)>>]
    /\ UNCHANGED <<alert_vars, subsequent_requests, url_statuses, session_new,
                   store_faulty, reg_calls, probes, threads, runs>>

\* Mutant of CheckRecord: the outcome is written over the history (an
\* update of the one row kept) instead of being added to it.
CheckRecord_overwrites(fails) ==
    /\ check.pc = "record"
    /\ IF fails
       THEN /\ check' = [check EXCEPT !.pc = "raised"]
            /\ UNCHANGED <<url_statuses, subsequent_requests>>
       ELSE /\ check' = [check EXCEPT !.pc = "returned"]
            /\ url_statuses' = <<check.status[1]>>
            /\ subsequent_requests' = session_commit
    /\ session_new' = EmptyBag
    /\ UNCHANGED <<alert_vars, store_faulty, reg_calls, probes, threads, runs>>

\* Lines 77-79: db.add(status), db.commit(), return status. The commit is of
\* the one Session the discovery threads share (app.py lines 38-39): it
\* writes their pending rows too. When the store rejects it nothing is
\* written and the exception leaves check_url.
CheckRecord(fails) ==
    /\ check.pc = "record"
    /\ IF fails
       THEN /\ check' = [check EXCEPT !.pc = "raised"]
            /\ UNCHANGED <<url_statuses, subsequent_requests>>
       ELSE /\ check' = [check EXCEPT !.pc = "returned"]
            /\ url_statuses' = Append(url_statuses, check.status[1])
            /\ subsequent_requests' = session_commit
    /\ session_new' = EmptyBag
    /\ UNCHANGED <<alert_vars, store_faulty, reg_calls, probes, threads, runs>>

\* The targets of the checks: alerts on or off, recurring.
InitMonitor ==
    /\ MonitorAtRest
    /\ urls \in { [id \in TargetIds |-> URL(alert_enabled, FALSE, TRUE)] :
                    alert_enabled \in BOOLEAN }
    /\ now = 0
    /\ posted = "none"
    /\ delivered = FALSE
    /\ call_parity = 0
    /\ last_call = NULL
    /\ streak = NoStreak
    /\ last_delivered_at = NULL
    /\ prev_delivered_at = NULL
    /\ missed_alert = NoMissedAlert
    /\ alert_calls = NoAlertCalls

\* What the captures and the pages of a check's discovery hold.
CheckCaptures == SeqsOf(CapturedRequests, 1, 1)

CheckPages == SeqsOf(PageResources, 0, 1)

\* Checks of one target, one call at a time, each with its discovery thread
\* running beside it; the interval between two checks is long enough for the
\* discovery of the first to be over. Nothing in check_url, and nothing else
\* in src/, calls process_status_for_alerts.
NextMonitor ==
    \/ \E url \in MonitorUrls, spawn \in {"capture", "fallback", "none"} :
          CheckStart(1, url, 1, spawn) /\ UNCHANGED sched_vars
    \/ \E raises \in BOOLEAN, status_code \in StatusCodes,
          response_time \in ResponseTimes :
          CheckProbe(raises, status_code, response_time) /\ UNCHANGED sched_vars
    \/ \E fails \in StoreFaults : CheckRecord(fails) /\ UNCHANGED sched_vars
    \/ DiscoveryStep(1, CheckCaptures, CheckPages)

SpecMonitor == InitMonitor /\ [][NextMonitor]_vars

(***************************************************************************)
(* Claims about check_url.                                                 *)
(***************************************************************************)
\* The number of rows at the end of `statuses` that are down.
RECURSIVE TrailingDowns(_)
TrailingDowns(statuses) ==
    IF statuses = <<>> \/ statuses[Len(statuses)].is_up
    THEN 0
    ELSE 1 + TrailingDowns(SubSeq(statuses, 1, Len(statuses) - 1))

\* C5: every check that records an outcome feeds it to
\* process_status_for_alerts: once check_url has returned, the
\* consecutive_failures of an alert-enabled recurring target is the number of
\* down outcomes its recorded history ends with.
C5_OutcomeFedToTracker ==
    (/\ check.pc = "returned"
     /\ urls[check.url_id].alert_enabled
     /\ ~urls[check.url_id].is_one_time)
    => urls[check.url_id].consecutive_failures = TrailingDowns(url_statuses)

\* C10: when the GET of a check fails, the exception does not leave
\* check_url: the check goes on to record, and its recording step adds
\* exactly one row, with status code 0, response time 0, is_up false and the
\* error text set, and returns.
C10_FailedGetRecordsOneDownRow ==
    [][ /\ (check.pc = "probe" /\ check' # check /\ check'.get_failed)
           => check'.pc = "record"
        /\ (check.pc = "record" /\ check.get_failed /\ check' # check)
           => /\ check'.pc = "returned"
              /\ Len(url_statuses') = Len(url_statuses) + 1
              /\ SubSeq(url_statuses', 1, Len(url_statuses)) = url_statuses
              /\ LET row == url_statuses'[Len(url_statuses')]
                 IN  /\ row.url_id = check.url_id
                     /\ row.status_code = 0
                     /\ row.response_time = 0
                     /\ ~row.is_up
                     /\ row.error_message # NULL ]_vars

\* C10's case: a check whose GET failed has returned after a check whose GET
\* was answered.
C10_Witness ==
    /\ check.pc = "returned"
    /\ check.get_failed
    /\ Len(url_statuses) = 2
    /\ url_statuses[1].is_up
    /\ url_statuses[2].status_code = 0

\* C31: every recorded outcome has is_up true exactly when its status code
\* is at least 200 and below 400; an outcome with status code 0, or with one
\* of 400 or more, has is_up false.
C31_UpIffCodeIn200To399 ==
    \A i \in 1..Len(url_statuses) :
       LET row == url_statuses[i]
       IN  /\ row.is_up <=> (200 <= row.status_code /\ row.status_code < 400)
           /\ (row.status_code = 0 \/ row.status_code >= 400) => ~row.is_up

\* C25: a capture attempt that yields no parsed request (tcpdump not on the
\* PATH, the host name not resolved, the capture process failing, the output
\* file missing or empty, nothing parsed) takes the discovery into the
\* fallback strategy, and neither it nor any other step of the discovery
\* touches the check: the check's position, its URLStatus and the recorded
\* outcomes are left alone, and the check never ends with an exception.
C25_CaptureFailureDegradesToFallback ==
    [][ /\ \A t \in ThreadIds :
             (threads[t].pc = "capture" /\ threads'[t] # threads[t])
             => /\ \/ threads'[t].pc = "fallback"
                   \/ threads'[t].pc = "cap_check" /\ threads'[t].todo # <<>>
                /\ check' = check
                /\ url_statuses' = url_statuses
        /\ check'.pc # "raised" ]_vars

\* C25's case: the capture for a well-formed URL failed, its discovery is in
\* the fallback, and the check that started it has recorded its outcome.
C25_Witness ==
    /\ threads[1].pc = "fallback"
    /\ threads[1].ret = "capture_try"
    /\ netloc(threads[1].arg_url) # ""
    /\ check.pc = "returned"
    /\ check.url_id = threads[1].url_id
    /\ Len(url_statuses) >= 1
    /\ url_statuses[Len(url_statuses)] = check.status[1]

(***************************************************************************)
(* network_monitor.py, start_monitoring, stop_monitoring, update_frequency *)
(* and the interval jobs of the APScheduler BackgroundScheduler.           *)
(***************************************************************************)
\* The values of check_frequency, in units of the clock.
Frequencies == {1, 2}

\* The url_obj of target `id`, as a caller of the monitor passes it.
UrlObj(id, url, check_frequency) ==
    [id |-> id, url |-> url, check_frequency |-> check_frequency]

\* The URLs of the targets of the direct calls.
UrlOf(id) == IF id = 1 THEN <<"http://", "a.test">> ELSE <<"a.test">>

\* The monitor's two registries of jobs.
Registry == [jobs |-> jobs, scheduler |-> scheduler]

\* Mutant of remove: the job stays in the job store.
remove_nothing(sched, job_id) == sched

\* Job.remove(): the job leaves the scheduler's job store.
remove(sched, job_id) == { j \in sched : j.id # job_id }

\* Mutant of add_job: the interval is not the target's.
add_job_other_interval(sched, job_id, url_obj) ==
    sched \cup { [id |-> job_id, url_id |-> url_obj.id, url |-> url_obj.url,
                  seconds |-> 3 - url_obj.check_frequency,
                  next_run_time |-> clock + 3 - url_obj.check_frequency] }

\* scheduler.add_job(self.check_url, 'interval', seconds=..., args=[id, url]),
\* lines 578-583: an interval job first runs one interval from now.
add_job(sched, job_id, url_obj) ==
    sched \cup { [id |-> job_id, url_id |-> url_obj.id, url |-> url_obj.url,
                  seconds |-> url_obj.check_frequency,
                  next_run_time |-> clock + url_obj.check_frequency] }

\* Mutant of start_monitoring_jobs: the job the target has is not removed.
start_monitoring_jobs_no_remove(m, url_obj, job_id) ==
    [jobs      |-> [m.jobs EXCEPT ![url_obj.id] = <<job_id>>],
     scheduler |-> add_job(m.scheduler, job_id, url_obj)]

\* start_monitoring lines 573-584: the job the target has, if any, is
\* removed; a new one is added and entered in the mapping.
start_monitoring_jobs(m, url_obj, job_id) ==
    LET kept == IF m.jobs[url_obj.id] # NULL
                THEN remove(m.scheduler, m.jobs[url_obj.id][1])
                ELSE m.scheduler
    IN  [jobs      |-> [m.jobs EXCEPT ![url_obj.id] = <<job_id>>],
         scheduler |-> add_job(kept, job_id, url_obj)]

\* Mutant of stop_monitoring_jobs: the mapping forgets the job, the
\* scheduler keeps it.
stop_monitoring_jobs_kept(m, url_id) ==
    [jobs |-> [m.jobs EXCEPT ![url_id] = NULL], scheduler |-> m.scheduler]

\* stop_monitoring lines 591-593: the target's job, if any, is removed from
\* the scheduler and deleted from the mapping.
stop_monitoring_jobs(m, url_id) ==
    IF m.jobs[url_id] # NULL
    THEN [jobs      |-> [m.jobs EXCEPT ![url_id] = NULL],
          scheduler |-> remove(m.scheduler, m.jobs[url_id][1])]
    ELSE m

\* A call is under way until it has returned or raised.
CallOver == call.pc \in {"done", "raised"}

\* What a call that only touches the registries leaves alone.
beside_registries ==
    <<alert_vars, subsequent_requests, url_statuses, session_new, store_faulty, reg_calls, probes,
      threads, runs, check, url_objs, clock>>

\* start_monitoring(url_obj) on the registries m, up to the start of its
\* initial check (line 587, check_url lines 32-50). The new job's id is fresh.
Schedule(m, url_obj, spawn) ==
    /\ CheckStart(url_obj.id, url_obj.url, 1, spawn)
    /\ LET after == start_monitoring_jobs(m, url_obj, runs + 1)
       IN  /\ jobs' = after.jobs
           /\ scheduler' = after.scheduler
    /\ stopped' = stopped \ {url_obj.id}

\* network_monitor.py, start_monitoring lines 571-587.
start_monitoring(url_obj, spawn) ==
    /\ CallOver
    /\ Schedule(Registry, url_obj, spawn)
    /\ call' = [NoCall EXCEPT !.op = "start_monitoring", !.url_id = url_obj.id,
                              !.url_obj = <<url_obj>>, !.pc = "check",
                              !.checks = 1]
    /\ UNCHANGED <<url_objs, clock>>

\* network_monitor.py, stop_monitoring lines 589-595.
stop_monitoring(url_id) ==
    /\ CallOver
    /\ LET after == stop_monitoring_jobs(Registry, url_id)
       IN  /\ jobs' = after.jobs
           /\ scheduler' = after.scheduler
    /\ call' = [NoCall EXCEPT !.op = "stop_monitoring", !.url_id = url_id,
                              !.ret = <<jobs[url_id] # NULL>>]
    /\ stopped' = stopped \cup {url_id}
    /\ UNCHANGED beside_registries

\* Mutant of update_frequency: a target with no job is scheduled.
update_frequency_schedules(url_obj, spawn) ==
    /\ CallOver
    /\ Schedule(stop_monitoring_jobs(Registry, url_obj.id), url_obj, spawn)
    /\ call' = [NoCall EXCEPT !.op = "update_frequency", !.url_id = url_obj.id,
                              !.url_obj = <<url_obj>>, !.pc = "check",
                              !.ret = <<TRUE>>, !.checks = 1]
    /\ UNCHANGED <<url_objs, clock>>

\* network_monitor.py, update_frequency lines 597-603.
update_frequency(url_obj, spawn) ==
    /\ CallOver
    /\ IF jobs[url_obj.id] # NULL
       THEN /\ Schedule(stop_monitoring_jobs(Registry, url_obj.id), url_obj, spawn)
            /\ call' = [NoCall EXCEPT !.op = "update_frequency",
                                      !.url_id = url_obj.id,
                                      !.url_obj = <<url_obj>>, !.pc = "check",
                                      !.ret = <<TRUE>>, !.checks = 1]
            /\ UNCHANGED <<url_objs, clock>>
       ELSE /\ call' = [NoCall EXCEPT !.op = "update_frequency",
                                      !.url_id = url_obj.id,
                                      !.url_obj = <<url_obj>>, !.ret = <<FALSE>>]
            /\ UNCHANGED <<jobs, scheduler, stopped>>
            /\ UNCHANGED beside_registries

\* The check a call of the monitor was waiting for is over: the call
\* returns, or raises what check_url raised; the start-up loop goes on to
\* the next active target.
CallReturns ==
    /\ call.pc = "check"
    /\ check.pc \in {"returned", "raised"}
    /\ call' = [call EXCEPT !.pc = IF check.pc = "raised" THEN "raised"
                                   ELSE IF call.todo # <<>> THEN "next"
                                   ELSE "done"]
    /\ UNCHANGED <<jobs, scheduler, stopped>>
    /\ UNCHANGED beside_registries

\* Mutant of JobFires: a job runs once and leaves the job store, as a job
\* the scheduler dropped would.
JobFires_once(j, spawn) ==
    /\ CallOver
    /\ j \in scheduler
    /\ clock >= j.next_run_time
    /\ CheckStart(j.url_id, j.url, 1, spawn)
    /\ scheduler' = scheduler \ {j}
    /\ UNCHANGED <<url_objs, jobs, call, stopped, clock>>

\* An interval job of the scheduler is due: it calls check_url with the
\* arguments it was added with, and is due again one interval later.
JobFires(j, spawn) ==
    /\ CallOver
    /\ j \in scheduler
    /\ clock >= j.next_run_time
    /\ CheckStart(j.url_id, j.url, 1, spawn)
    /\ scheduler' = (scheduler \ {j})
                      \cup {[j EXCEPT !.next_run_time = @ + j.seconds]}
    /\ UNCHANGED <<url_objs, jobs, call, stopped, clock>>

\* Time passes. The unit of the clock is a whole interval, which no check
\* and no discovery outlasts: the clock moves between them.
ClockTick ==
    /\ clock < MaxClock
    /\ check.pc \in {"idle", "returned", "raised"}
    /\ \A t \in ThreadIds : threads[t].pc \in {"idle", "done"}
    /\ clock' = clock + 1
    /\ UNCHANGED <<jobs, scheduler, stopped, call, url_objs>>
    /\ UNCHANGED <<alert_vars, subsequent_requests, url_statuses, session_new,
                   store_faulty, reg_calls, probes, threads, runs, check>>

\* The ways a check started by the scheduler or the API goes on.
CheckSpawns == {"capture"}

CheckStatusCodes == {200}

\* What the captures and the pages of these checks' discoveries hold.
JobCaptures == { << <<"Unknown">> >> }

JobPages == { <<>> }

CheckGoesOn ==
    \/ \E raises \in BOOLEAN, status_code \in CheckStatusCodes,
          response_time \in ResponseTimes :
          CheckProbe(raises, status_code, response_time) /\ UNCHANGED sched_vars
    \/ \E fails \in StoreFaults : CheckRecord(fails) /\ UNCHANGED sched_vars
    \/ DiscoveryStep(1, JobCaptures, JobPages)

InitScheduler == AlertsAtRest /\ MonitorAtRest

\* The monitor called directly, one call at a time, for two targets, while
\* the jobs fire and time passes. A job fires, and a call that runs a check
\* starts, when no other check is under way.
NextScheduler ==
    \/ \E id \in UrlIds, f \in Frequencies, spawn \in CheckSpawns :
          start_monitoring(UrlObj(id, UrlOf(id), f), spawn)
    \/ \E id \in UrlIds : stop_monitoring(id)
    \/ \E id \in UrlIds, f \in Frequencies, spawn \in CheckSpawns :
          update_frequency(UrlObj(id, UrlOf(id), f), spawn)
    \/ CallReturns
    \/ \E j \in scheduler, spawn \in CheckSpawns : JobFires(j, spawn)
    \/ ClockTick
    \/ CheckGoesOn

SpecScheduler == InitScheduler /\ [][NextScheduler]_vars

(***************************************************************************)
(* Claims about the scheduling.                                            *)
(***************************************************************************)
\* The jobs of the scheduler that check target `id`.
JobsFor(sched, id) == { j \in sched : j.url_id = id }

\* C11: whatever start_monitoring, stop_monitoring and update_frequency
\* calls were made, the scheduler holds at most one job per target, and it
\* is the one the jobs mapping names.
C11_OneJobPerTarget ==
    \A id \in UrlIds :
        /\ Cardinality(JobsFor(scheduler, id)) <= 1
        /\ \A j \in JobsFor(scheduler, id) : jobs[id] = <<j.id>>

\* C11's case: start_monitoring was called for a target that had a job; the
\* job of the second call is the only one.
C11_Witness ==
    /\ call.op = "start_monitoring"
    /\ runs = 2
    /\ jobs[1] = <<2>>
    /\ jobs[2] = NULL
    /\ stopped = {}
    /\ \E j \in scheduler : j.id = 2 /\ j.url_id = 1

\* C12: when start_monitoring has returned, it has made exactly one call of
\* check_url, whose URLStatus is stored, and the target has a job in the
\* scheduler with an interval of check_frequency.
C12_ScheduleChecksOnce ==
    (call.op = "start_monitoring" /\ call.pc = "done")
    => /\ call.checks = 1
       /\ \E i \in 1 .. Len(url_statuses) : url_statuses[i].url_id = call.url_id
       /\ jobs[call.url_id] # NULL
       /\ \E j \in scheduler :
            /\ j.id = jobs[call.url_id][1]
            /\ j.url_id = call.url_id
            /\ j.seconds = call.url_obj[1].check_frequency

\* C12's case: start_monitoring has returned for a target with the longer
\* interval.
C12_Witness ==
    /\ call.op = "start_monitoring"
    /\ call.pc = "done"
    /\ call.url_obj[1].check_frequency = 2
    /\ Len(url_statuses) = 1

\* A call of `op` is made in this step.
Calls(op) == CallOver /\ call' # call /\ call'.op = op

\* C13: stop_monitoring removes the target's job from the scheduler and from
\* the mapping and returns True when the target has one; it returns False
\* and changes nothing when it has none; the other targets' jobs stay.
C13_UnscheduleRemovesOnlyTheTarget ==
    [][ Calls("stop_monitoring") =>
          LET id == call'.url_id IN
          /\ IF jobs[id] # NULL
             THEN /\ call'.ret = <<TRUE>>
                  /\ jobs'[id] = NULL
                  /\ JobsFor(scheduler', id) = {}
             ELSE /\ call'.ret = <<FALSE>>
                  /\ jobs' = jobs
                  /\ scheduler' = scheduler
          /\ \A other \in UrlIds \ {id} :
                /\ jobs'[other] = jobs[other]
                /\ JobsFor(scheduler', other) = JobsFor(scheduler, other) ]_vars

\* C13's case: stop_monitoring found the job of one target while the other
\* target has a job.
C13_Witness ==
    /\ call.op = "stop_monitoring"
    /\ call.ret = <<TRUE>>
    /\ \E other \in UrlIds \ {call.url_id} :
          jobs[other] # NULL /\ JobsFor(scheduler, other) # {}

\* C14: update_frequency of a target with a job does what stop_monitoring
\* followed by start_monitoring does: the old job is gone, a new job with the
\* interval passed is the target's only one, a check is started; for a target
\* with no job it returns False, makes no job and runs no check.
C14_RescheduleIsStopThenStart ==
    [][ Calls("update_frequency") =>
          LET id == call'.url_id
              f  == call'.url_obj[1].check_frequency
          IN
          /\ IF jobs[id] # NULL
             THEN /\ call'.ret = <<TRUE>>
                  /\ jobs'[id] # NULL
                  /\ jobs'[id] # jobs[id]
                  /\ \E j \in scheduler' :
                        /\ JobsFor(scheduler', id) = {j}
                        /\ j.id = jobs'[id][1]
                        /\ j.seconds = f
                        /\ j.next_run_time = clock + f
                  /\ check'.pc \in {"probe", "record"}
                  /\ check'.url_id = id
                  /\ runs' = runs + 1
             ELSE /\ call'.ret = <<FALSE>>
                  /\ call'.pc = "done"
                  /\ jobs' = jobs
                  /\ scheduler' = scheduler
                  /\ check' = check
                  /\ runs' = runs
                  /\ url_statuses' = url_statuses
          /\ \A other \in UrlIds \ {id} :
                /\ jobs'[other] = jobs[other]
                /\ JobsFor(scheduler', other) = JobsFor(scheduler, other) ]_vars

\* C14's case: update_frequency was called for a target with no job, after
\* one for a target with a job.
C14_Witness ==
    /\ call.op = "update_frequency"
    /\ call.ret = <<FALSE>>
    /\ runs = 2
    /\ \E id \in UrlIds : jobs[id] = <<2>>

\* A job of target `id` fires in this step: a check of it starts that no
\* call makes.
TickStarts(id) ==
    /\ check' # check
    /\ check'.pc \in {"probe", "record"}
    /\ check'.url_id = id
    /\ call' = call
    /\ check.pc \in {"idle", "returned", "raised"}

\* C15: once stop_monitoring has returned for a target, no job of it fires
\* until it is scheduled again.
C15_NoTickAfterUnschedule ==
    [][ \A id \in UrlIds : TickStarts(id) => id \notin stopped ]_vars

\* C15's case: stop_monitoring returned while a check made by the target's
\* job was under way.
C15_Witness ==
    /\ call.op = "stop_monitoring"
    /\ call.ret = <<TRUE>>
    /\ check.pc = "probe"
    /\ check.url_id = call.url_id
    /\ runs = 2

\* C16: update_frequency with the frequency the target's job already has
\* runs no check and leaves the time of the job's next run as it was.
C16_SameFrequencyKeepsNextTick ==
    [][ Calls("update_frequency") =>
          LET id == call'.url_id
              f  == call'.url_obj[1].check_frequency
          IN  \A old \in JobsFor(scheduler, id) :
                old.seconds = f
                => /\ check' = check
                   /\ \A j \in JobsFor(scheduler', id) :
                         j.next_run_time = old.next_run_time ]_vars

(***************************************************************************)
(* app.py: add_url, update_url, delete_url and the start-up of the process *)
(* (__main__), over the monitor.                                           *)
(***************************************************************************)
\* The URLs a client submits.
ApiUrls == { <<"http://", "a.test">>, <<"a.test">> }

\* The bodies of a PUT: is_active set or cleared, check_frequency changed,
\* or neither (a new name only).
UpdateData ==
    { [check_frequency |-> NULL, is_active |-> <<TRUE>>],
      [check_frequency |-> NULL, is_active |-> <<FALSE>>],
      [check_frequency |-> <<2>>, is_active |-> NULL],
      [check_frequency |-> NULL, is_active |-> NULL] }

\* The ids of the rows of the urls table.
RowIds(objs) == { id \in UrlIds : objs[id] # NULL }

\* The id the store gives a new row: one more than the largest in the table.
NextId(objs) ==
    IF RowIds(objs) = {} THEN 1
    ELSE 1 + CHOOSE id \in RowIds(objs) : \A other \in RowIds(objs) : other <= id

\* The ids of S in ascending order.
RECURSIVE InOrder(_)
InOrder(S) ==
    IF S = {} THEN <<>>
    ELSE LET least == CHOOSE id \in S : \A other \in S : id <= other
         IN  <<least>> \o InOrder(S \ {least})

\* The url_obj of row `id` of the table `objs`.
RowObj(objs, id) == UrlObj(id, objs[id][1].url, objs[id][1].check_frequency)

\* A response of the API.
Response(code, status, records) ==
    [code |-> code, status |-> status, subsequent_requests |-> records]

\* An API call that touches neither the monitor nor the tables it writes.
beside_request ==
    <<alert_vars, subsequent_requests, url_statuses, session_new, store_faulty, reg_calls, probes,
      threads, runs, check, jobs, scheduler, stopped, clock>>

\* app.py, add_url lines 90-128: the request is refused (409) when a
\* recurring row has the URL; otherwise the row is stored and check_url is
\* called.
add_url(url, one_time, check_frequency, spawn) ==
    /\ CallOver
    /\ IF ~one_time /\ \E id \in RowIds(url_objs) :
                          url_objs[id][1].url = url /\ ~url_objs[id][1].is_one_time
       THEN /\ call' = [NoCall EXCEPT !.op = "add_url",
                                      !.response = <<Response(409, NULL, {})>>]
            /\ UNCHANGED url_objs
            /\ UNCHANGED beside_request
       ELSE LET id == NextId(url_objs) IN
            /\ id \in UrlIds
            /\ url_objs' = [url_objs EXCEPT ![id] =
                              <<[url |-> url, is_active |-> ~one_time,
                                 is_one_time |-> one_time,
                                 check_frequency |-> check_frequency]>>]
            /\ CheckStart(id, url, 1, spawn)
            /\ call' = [NoCall EXCEPT !.op = "add_url", !.url_id = id,
                                      !.pc = "first_check", !.checks = 1]
            /\ UNCHANGED <<jobs, scheduler, stopped, clock>>

\* app.py, add_url lines 130-185, after check_url: a one-time check waits
\* and reads the target's rows for its response; a recurring target that is
\* active is passed to start_monitoring.
add_url_after_check(spawn) ==
    /\ call.op = "add_url"
    /\ call.pc = "first_check"
    /\ check.pc \in {"returned", "raised"}
    /\ LET id == call.url_id
           row == url_objs[id][1]
       IN
       IF check.pc = "raised"
       THEN /\ call' = [call EXCEPT !.pc = "raised"]
            /\ UNCHANGED url_objs
            /\ UNCHANGED beside_request
       ELSE IF row.is_one_time
       THEN /\ call' = [call EXCEPT
                          !.pc = "done",
                          !.response =
                             <<Response(200,
                                 IF \E i \in 1 .. Len(url_statuses) :
                                       url_statuses[i].url_id = id
                                 THEN <<check.status[1]>> ELSE NULL,
                                 RecordsOf(id))>>]
            /\ UNCHANGED url_objs
            /\ UNCHANGED beside_request
       ELSE IF row.is_active
       THEN /\ Schedule(Registry, RowObj(url_objs, id), spawn)
            /\ call' = [call EXCEPT !.pc = "check", !.checks = 2,
                                    !.response = <<Response(201, NULL, {})>>]
            /\ UNCHANGED <<url_objs, clock>>
       ELSE /\ call' = [call EXCEPT !.pc = "done",
                                    !.response = <<Response(201, NULL, {})>>]
            /\ UNCHANGED url_objs
            /\ UNCHANGED beside_request

\* app.py, update_url lines 187-222: the row's fields are set from the body
\* and committed; then update_frequency for an active row, stop_monitoring
\* for an inactive one.
update_url(url_id, data, spawn) ==
    /\ CallOver
    /\ IF url_objs[url_id] = NULL
       THEN /\ call' = [NoCall EXCEPT !.op = "update_url", !.url_id = url_id,
                                      !.response = <<Response(404, NULL, {})>>]
            /\ UNCHANGED url_objs
            /\ UNCHANGED beside_request
       ELSE LET old == url_objs[url_id][1]
                row == [old EXCEPT
                          !.check_frequency = IF data.check_frequency # NULL
                                              THEN data.check_frequency[1] ELSE @,
                          !.is_active = IF data.is_active # NULL
                                        THEN data.is_active[1] ELSE @]
                objs == [url_objs EXCEPT ![url_id] = <<row>>]
            IN
            /\ url_objs' = objs
            /\ IF row.is_active
               THEN IF jobs[url_id] # NULL
                    THEN /\ Schedule(stop_monitoring_jobs(Registry, url_id),
                                     RowObj(objs, url_id), spawn)
                         /\ call' = [NoCall EXCEPT
                                       !.op = "update_url", !.url_id = url_id,
                                       !.pc = "check", !.checks = 1,
                                       !.response = <<Response(200, NULL, {})>>]
                         /\ UNCHANGED clock
                    ELSE /\ call' = [NoCall EXCEPT
                                       !.op = "update_url", !.url_id = url_id,
                                       !.response = <<Response(200, NULL, {})>>]
                         /\ UNCHANGED beside_request
               ELSE /\ LET after == stop_monitoring_jobs(Registry, url_id)
                       IN  /\ jobs' = after.jobs
                           /\ scheduler' = after.scheduler
                    /\ stopped' = stopped \cup {url_id}
                    /\ call' = [NoCall EXCEPT
                                  !.op = "update_url", !.url_id = url_id,
                                  !.response = <<Response(200, NULL, {})>>]
                    /\ UNCHANGED <<alert_vars, subsequent_requests, url_statuses,
                                   session_new, store_faulty, reg_calls, probes, threads, runs,
                                   check, clock>>

\* The rows of the table B that are not of target url_id.
RowsNotOf(B, url_id) ==
    [r \in { x \in BagToSet(B) : x.url_id # url_id } |-> B[r]]

\* app.py, delete_url lines 224-266: stop_monitoring, then the target's
\* rows of the three tables are deleted and the deletion committed.
delete_url(url_id) ==
    /\ CallOver
    /\ IF url_objs[url_id] = NULL
       THEN /\ call' = [NoCall EXCEPT !.op = "delete_url", !.url_id = url_id,
                                      !.response = <<Response(404, NULL, {})>>]
            /\ UNCHANGED url_objs
            /\ UNCHANGED beside_request
       ELSE /\ LET after == stop_monitoring_jobs(Registry, url_id)
               IN  /\ jobs' = after.jobs
                   /\ scheduler' = after.scheduler
            /\ stopped' = stopped \cup {url_id}
            /\ url_statuses' = SelectSeq(url_statuses, LAMBDA r : r.url_id # url_id)
            /\ subsequent_requests' =
                  RowsNotOf(subsequent_requests, url_id)
            /\ url_objs' = [url_objs EXCEPT ![url_id] = NULL]
            /\ call' = [NoCall EXCEPT !.op = "delete_url", !.url_id = url_id,
                                      !.response = <<Response(200, NULL, {})>>]
            /\ UNCHANGED <<alert_vars, session_new, store_faulty, reg_calls, probes, threads, runs,
                           check, clock>>

\* app.py lines 356-358: the rows with is_active == True, in the order of
\* their ids, are those start-up passes to start_monitoring.
Startup(objs) ==
    LET active_urls == InOrder({ id \in RowIds(objs) : objs[id][1].is_active })
    IN  [NoCall EXCEPT !.op = "startup", !.todo = active_urls,
                       !.pc = IF active_urls = <<>> THEN "done" ELSE "next"]

\* The process ends and is started again: its threads, its Session's pending
\* objects, its scheduler and its jobs mapping are gone; the tables stay.
ProcessRestarts ==
    /\ CallOver
    /\ threads' = [t \in ThreadIds |-> IdleThread]
    /\ check' = NoCheck
    /\ session_new' = EmptyBag
    /\ jobs' = [id \in UrlIds |-> NULL]
    /\ scheduler' = {}
    /\ stopped' = {}
    /\ call' = Startup(url_objs)
    /\ UNCHANGED <<alert_vars, subsequent_requests, url_statuses, store_faulty, reg_calls, probes,
                   runs, url_objs, clock>>

\* app.py lines 359-360: start_monitoring(url) for the next active row.
StartupSchedules(spawn) ==
    /\ call.op = "startup"
    /\ call.pc = "next"
    /\ Schedule(Registry, RowObj(url_objs, Head(call.todo)), spawn)
    /\ call' = [call EXCEPT !.pc = "check", !.url_id = Head(call.todo),
                            !.todo = Tail(call.todo), !.checks = @ + 1]
    /\ UNCHANGED <<url_objs, clock>>

\* The tables a process may find when it starts: none, or the row of a
\* recurring target an earlier process added.
InitApi ==
    /\ AlertsAtRest
    /\ subsequent_requests = EmptyBag
    /\ url_statuses = <<>>
    /\ session_new = EmptyBag
    /\ store_faulty = FALSE
    /\ reg_calls = NoRegCalls
    /\ probes = NoProbes
    /\ threads = [t \in ThreadIds |-> IdleThread]
    /\ runs = 0
    /\ check = NoCheck
    /\ url_objs \in
         { [id \in UrlIds |-> NULL],
           [id \in UrlIds |->
              IF id = 1
              THEN <<[url |-> <<"a.test">>, is_active |-> TRUE,
                      is_one_time |-> FALSE, check_frequency |-> 1]>>
              ELSE NULL] }
    /\ jobs = [id \in UrlIds |-> NULL]
    /\ scheduler = {}
    /\ call = Startup(url_objs)
    /\ stopped = {}
    /\ clock = 0

\* The API called one request at a time, over the monitor: a request that
\* runs a check starts when no other check is under way; the process may be
\* restarted between requests. The requests come within the first interval
\* of every job: no job fires.
NextApi ==
    \/ \E url \in ApiUrls, one_time \in BOOLEAN, f \in Frequencies,
          spawn \in CheckSpawns :
          add_url(url, one_time, f, spawn)
    \/ \E spawn \in CheckSpawns : add_url_after_check(spawn)
    \/ \E id \in UrlIds, data \in UpdateData, spawn \in CheckSpawns :
          update_url(id, data, spawn)
    \/ \E id \in UrlIds : delete_url(id)
    \/ ProcessRestarts
    \/ \E spawn \in CheckSpawns : StartupSchedules(spawn)
    \/ CallReturns
    \/ CheckGoesOn

SpecApi == InitApi /\ [][NextApi]_vars

(***************************************************************************)
(* Claims about the API over the scheduler.                                *)
(***************************************************************************)
\* C17: every job in the scheduler is of a target whose row is active and
\* not one-time.
C17_ScheduledIsActiveRecurring ==
    \A j \in scheduler :
        /\ url_objs[j.url_id] # NULL
        /\ url_objs[j.url_id][1].is_active
        /\ ~url_objs[j.url_id][1].is_one_time

\* C18: when add_url or update_url has returned, every target whose row is
\* active and not one-time has a job in the scheduler.
C18_ActiveRecurringIsScheduled ==
    (call.op \in {"add_url", "update_url"} /\ call.pc = "done")
    => \A id \in RowIds(url_objs) :
          (url_objs[id][1].is_active /\ ~url_objs[id][1].is_one_time)
          => /\ jobs[id] # NULL
             /\ JobsFor(scheduler, id) # {}

\* The URLStatus rows of target id.
StatusesOf(id) ==
    { i \in 1..Len(url_statuses) : url_statuses[i].url_id = id }

\* C39: when add_url has returned for a new recurring target, exactly one
\* check of it was run: one URLStatus of the target is recorded, and one job
\* is registered for it.
C39_AddUrlChecksOnce ==
    (/\ call.op = "add_url"
     /\ call.pc = "done"
     /\ call.url_id \in UrlIds
     /\ url_objs[call.url_id] # NULL
     /\ ~url_objs[call.url_id][1].is_one_time)
    => /\ call.checks = 1
       /\ Cardinality(StatusesOf(call.url_id)) = 1
       /\ Cardinality(JobsFor(scheduler, call.url_id)) = 1

\* The targets delete_url has removed: stopped, and without a row.
Deleted == { id \in UrlIds : id \in stopped /\ url_objs[id] = NULL }

\* C36: once delete_url has returned for a target, no URLStatus and no
\* SubsequentRequest row of that target exists, then or at any later time,
\* also when a check or a discovery thread of the target was under way at
\* the time of the delete.
C36_NoRowsOfDeletedTarget ==
    \A id \in Deleted :
        /\ \A i \in 1..Len(url_statuses) : url_statuses[i].url_id # id
        /\ RecordsOf(id) = {}

\* C19: the response of a one-time add_url holds one URLStatus and at least
\* one SubsequentRequest row of the target.
C19_OneTimeResponseHasRecords ==
    (/\ call.op = "add_url"
     /\ call.pc = "done"
     /\ call.response # NULL
     /\ call.response[1].code = 200)
    => /\ call.response[1].status # NULL
       /\ call.response[1].subsequent_requests # {}


(***************************************************************************)
(* Checks of one target that follow one another before the discovery of    *)
(* the earlier one is over: check_url never joins the thread it starts     *)
(* (lines 35-40), and a discovery takes the 3 seconds of its capture and   *)
(* then up to the 10 seconds of the fallback's GET, while check_frequency  *)
(* may be any number of seconds.                                           *)
(***************************************************************************)
\* The discovery runs under way for url_id.
InFlight(url_id) ==
    { t \in ThreadIds : /\ threads[t].pc \notin {"idle", "done"}
                         /\ threads[t].url_id = url_id }

\* Checks of target 1, one call after the other, each starting its discovery
\* on a thread of its own.
NextOverlap ==
    \/ \E t \in ThreadIds, spawn \in {"capture", "fallback", "none"} :
          CheckStart(1, <<"http://", "a.test">>, t, spawn) /\ UNCHANGED sched_vars
    \/ \E raises \in BOOLEAN, status_code \in CheckStatusCodes,
          response_time \in ResponseTimes :
          CheckProbe(raises, status_code, response_time) /\ UNCHANGED sched_vars
    \/ \E fails \in StoreFaults : CheckRecord(fails) /\ UNCHANGED sched_vars
    \/ \E t \in ThreadIds : DiscoveryStep(t, JobCaptures, CheckPages)

SpecOverlap == InitDiscovery /\ [][NextOverlap]_vars

\* C23: at every moment at most one discovery run is under way per target; a
\* check that starts while one is still running starts no second thread.
C23_OneDiscoveryInFlight ==
    \A url_id \in MonitoredIds : Cardinality(InFlight(url_id)) <= 1

(***************************************************************************)
(* network_monitor.py, check_url called while another call of it for the   *)
(* same target is still running: start_monitoring adds the interval job    *)
(* (line 578) before it runs the initial check on its caller's thread      *)
(* (line 587), check_frequency may be any number of seconds, and           *)
(* update_frequency starts a new initial check while a tick of the job it  *)
(* removed may still run.  A step per blocking call of check_url: the      *)
(* thread start, the GET, the sleep of line 66.  Each call is named by the *)
(* number of its start.                                                    *)
(***************************************************************************)
\* Whether the call p is under way.
ProbeRunning(p) == probes.of[p].pc \in {"probe", "sleep"}

\* Lines 77-79 for the call p with the URLStatus it built, after its GET
\* ended: the row is added and committed, the commit writing the pending
\* rows of the shared Session too, or the store rejects the commit.
ProbeRecord(p, status, fails) ==
    /\ probes' = [probes EXCEPT
                    !.of[p].pc = IF fails THEN "raised" ELSE "returned",
                    !.of[p].status = <<status>>,
                    !.finished = IF probes.of[p].pc = "sleep" THEN @
                                 ELSE Append(@, probes.of[p].run),
                    !.stored = IF fails THEN @ ELSE Append(@, probes.of[p].run)]
    /\ IF fails
       THEN UNCHANGED <<url_statuses, subsequent_requests>>
       ELSE /\ url_statuses' = Append(url_statuses, status)
            /\ subsequent_requests' = session_commit
    /\ session_new' = EmptyBag

\* Lines 32-50 on the call p: check_url(url_id, url) starts the discovery on
\* the free thread t. When starting both threads raised, the handler of line
\* 68 builds the failed row and lines 77-79 record it at once, no GET made.
ProbeStart(p, url_id, url, t, spawn) ==
    /\ ~ProbeRunning(p)
    /\ runs < MaxRuns
    /\ runs' = runs + 1
    /\ threads[t].pc \in {"idle", "done"}
    /\ IF spawn = "none"
       THEN /\ \E fails \in StoreFaults :
                 /\ probes' = [probes EXCEPT
                      !.of[p] = [pc |-> IF fails THEN "raised" ELSE "returned",
                                 run |-> runs + 1, url_id |-> url_id,
                                 url |-> url,
                                 status |-> <<FailedStatus(url_id)>>],
                      !.stored = IF fails THEN @ ELSE Append(@, runs + 1)]
                 /\ IF fails
                    THEN UNCHANGED <<url_statuses, subsequent_requests>>
                    ELSE /\ url_statuses' =
                               Append(url_statuses, FailedStatus(url_id))
                         /\ subsequent_requests' = session_commit
            /\ session_new' = EmptyBag
            /\ UNCHANGED threads
       ELSE /\ threads' = [threads EXCEPT ![t] =
                             [IdleThread EXCEPT !.pc = spawn, !.url_id = url_id,
                                                !.arg_url = url, !.url = url]]
            /\ probes' = [probes EXCEPT
                            !.of[p] = [pc |-> "probe", run |-> runs + 1,
                                       url_id |-> url_id, url |-> url,
                                       status |-> NULL]]
            /\ UNCHANGED <<url_statuses, subsequent_requests, session_new>>
    /\ UNCHANGED <<alert_vars, store_faulty, reg_calls, check, sched_vars>>

\* Lines 52-75 on the call p: the GET ends. When it raised, the handler of
\* line 68 builds the failed row and lines 77-79 record it without a wait;
\* when it was answered, the row is built and the call sleeps (line 66).
ProbeGet(p, raises, status_code, response_time, fails) ==
    /\ probes.of[p].pc = "probe"
    /\ raises \in GetRaises(probes.of[p].url)
    /\ IF raises
       THEN ProbeRecord(p, FailedStatus(probes.of[p].url_id), fails)
       ELSE /\ ~fails
            /\ probes' = [probes EXCEPT
                            !.of[p].pc = "sleep",
                            !.of[p].status =
                               <<URLStatus(probes.of[p].url_id, status_code,
                                           response_time, status_code < 400,
                                           NULL)>>,
                            !.finished = Append(@, probes.of[p].run)]
            /\ UNCHANGED <<url_statuses, subsequent_requests, session_new>>
    /\ UNCHANGED <<alert_vars, store_faulty, reg_calls, threads, runs, check, sched_vars>>

\* The calls whose GET ended.
Probed == { probes.finished[i] : i \in 1..Len(probes.finished) }

\* The place of the call numbered run in the order the GETs ended.
FinishedAt(run) ==
    CHOOSE i \in 1..Len(probes.finished) : probes.finished[i] = run

\* Lines 66 and 77-79 on the call p: the two seconds are over and the row is
\* recorded. The calls that sleep wake in the order they went to sleep.
ProbeWake(p, fails) ==
    /\ probes.of[p].pc = "sleep"
    /\ \A q \in ProbeIds :
          probes.of[q].pc = "sleep"
             => FinishedAt(probes.of[p].run) <= FinishedAt(probes.of[q].run)
    /\ ProbeRecord(p, probes.of[p].status[1], fails)
    /\ UNCHANGED <<alert_vars, store_faulty, reg_calls, threads, runs, check, sched_vars>>

\* Calls of check_url for target 1 that may overlap, and their discoveries.
NextProbes ==
    \/ \E p \in ProbeIds, spawn \in {"capture", "fallback", "none"} :
          ProbeStart(p, 1, <<"http://", "a.test">>, p, spawn)
    \/ \E p \in ProbeIds, raises \in BOOLEAN, status_code \in CheckStatusCodes,
          response_time \in ResponseTimes, fails \in StoreFaults :
          ProbeGet(p, raises, status_code, response_time, fails)
    \/ \E p \in ProbeIds, fails \in StoreFaults : ProbeWake(p, fails)
    \/ \E t \in ThreadIds : DiscoveryStep(t, JobCaptures, CheckPages)

SpecProbes == InitDiscovery /\ [][NextProbes]_vars

\* C29: the outcomes of one target are stored in the order their probes
\* ended: of two stored outcomes, the one stored first is of the GET that
\* ended first.
C29_StoredInCompletionOrder ==
    \A i, j \in 1..Len(probes.stored) :
       (i < j /\ probes.stored[i] \in Probed /\ probes.stored[j] \in Probed)
          => FinishedAt(probes.stored[i]) < FinishedAt(probes.stored[j])

(***************************************************************************)
(* alert_manager.py, process_status_for_alerts called on several threads   *)
(* for one target, a step per read or write of the row the calls share:    *)
(* the AlertManager has one Session (line 16), whose query of line 23      *)
(* gives every call the same URL object, and no lock is taken anywhere in  *)
(* the class.                                                              *)
(***************************************************************************)
\* What no step of these calls changes.
beside_alert_calls ==
    <<now, posted, delivered, call_parity, last_call, streak,
      last_delivered_at, prev_delivered_at, missed_alert, mon_vars>>

\* The calls begun: those over and those under way.
AlertCallsBegun ==
    alert_calls.downs + alert_calls.ups
      + Cardinality({ c \in AlertThreads :
                        alert_calls.of[c].pc \notin {"idle", "done"} })

\* Thread c is at `pc`.
AlertCallAt(c, pc) == alert_calls.of[c].pc = pc

\* Thread c moves on to `pc`.
AlertCallTo(c, pc) == [alert_calls EXCEPT !.of[c].pc = pc]

\* Lines 21-25: the call for target 1 begins on thread c with its query.
AlertCallBegin(c, is_up) ==
    /\ alert_calls.of[c].pc \in {"idle", "done"}
    /\ AlertCallsBegun < MaxStreak
    /\ alert_calls' = [alert_calls EXCEPT !.of[c] =
          [pc |-> IF Tracked(1) THEN "load" ELSE "done", is_up |-> is_up,
           loaded |-> 0]]
    /\ UNCHANGED <<urls, beside_alert_calls>>

\* Line 29 or the read of line 35: the counter is read.
AlertCallLoad(c) ==
    /\ AlertCallAt(c, "load")
    /\ alert_calls' = [alert_calls EXCEPT
          !.of[c].loaded = urls[1].consecutive_failures,
          !.of[c].pc = IF ~alert_calls.of[c].is_up THEN "store"
                       ELSE IF WasAlerting(urls[1]) THEN "recover"
                       ELSE "reset"]
    /\ UNCHANGED <<urls, beside_alert_calls>>

\* The write of line 35: the counter becomes the value read plus one.
AlertCallStore(c) ==
    /\ AlertCallAt(c, "store")
    /\ urls' = [urls EXCEPT ![1].consecutive_failures = alert_calls.of[c].loaded + 1]
    /\ alert_calls' = AlertCallTo(c, "test")
    /\ UNCHANGED beside_alert_calls

\* Line 38: the counter is read again and compared with the threshold.
AlertCallTest(c) ==
    /\ AlertCallAt(c, "test")
    /\ alert_calls' = AlertCallTo(c, IF AtThreshold(urls[1].consecutive_failures)
                                     THEN "send" ELSE "commit")
    /\ UNCHANGED <<urls, beside_alert_calls>>

\* send_failure_alert lines 46-109: the tests of the webhook and of the
\* cooldown, and the POST.
AlertCallSend(c) ==
    /\ AlertCallAt(c, "send")
    /\ alert_calls' =
          IF slack_webhook_url = "" \/ InCooldown(urls[1])
          THEN AlertCallTo(c, "commit")
          ELSE [alert_calls EXCEPT !.of[c].pc = "post", !.failure_posts = @ + 1]
    /\ UNCHANGED <<urls, beside_alert_calls>>

\* send_failure_alert lines 109-119: the webhook's answer; an accepted POST
\* sets last_alerted_at.
AlertCallPosted(c, ok) ==
    /\ AlertCallAt(c, "post")
    /\ urls' = IF ok THEN [urls EXCEPT ![1].last_alerted_at = <<now>>] ELSE urls
    /\ alert_calls' = AlertCallTo(c, "commit")
    /\ UNCHANGED beside_alert_calls

\* Line 30: the recovery alert is POSTed.
AlertCallRecover(c) ==
    /\ AlertCallAt(c, "recover")
    /\ alert_calls' = AlertCallTo(c, "reset")
    /\ UNCHANGED <<urls, beside_alert_calls>>

\* Line 32: the counter is set to 0.
AlertCallReset(c) ==
    /\ AlertCallAt(c, "reset")
    /\ urls' = [urls EXCEPT ![1].consecutive_failures = 0]
    /\ alert_calls' = AlertCallTo(c, "commit")
    /\ UNCHANGED beside_alert_calls

\* Line 42: the commit; the call is over.
AlertCallCommit(c) ==
    /\ AlertCallAt(c, "commit")
    /\ alert_calls' = [alert_calls EXCEPT
          !.of[c].pc = "done",
          !.downs = IF alert_calls.of[c].is_up THEN @ ELSE @ + 1,
          !.ups = IF alert_calls.of[c].is_up THEN @ + 1 ELSE @]
    /\ UNCHANGED <<urls, beside_alert_calls>>

\* A tracked target whose counter stands at 0 and that was never alerted.
InitAlertCalls ==
    /\ MonitorAtRest
    /\ urls = [id \in TargetIds |-> URL(TRUE, FALSE, TRUE)]
    /\ now = 0
    /\ posted = "none"
    /\ delivered = FALSE
    /\ call_parity = 0
    /\ last_call = NULL
    /\ streak = NoStreak
    /\ last_delivered_at = NULL
    /\ prev_delivered_at = NULL
    /\ missed_alert = NoMissedAlert
    /\ alert_calls = NoAlertCalls

NextAlertCalls ==
    \/ \E c \in AlertThreads, is_up \in BOOLEAN : AlertCallBegin(c, is_up)
    \/ \E c \in AlertThreads : AlertCallLoad(c)
    \/ \E c \in AlertThreads : AlertCallStore(c)
    \/ \E c \in AlertThreads : AlertCallTest(c)
    \/ \E c \in AlertThreads : AlertCallSend(c)
    \/ \E c \in AlertThreads, ok \in BOOLEAN : AlertCallPosted(c, ok)
    \/ \E c \in AlertThreads : AlertCallRecover(c)
    \/ \E c \in AlertThreads : AlertCallReset(c)
    \/ \E c \in AlertThreads : AlertCallCommit(c)

\* Outcomes of one target processed on two threads, in every interleaving of
\* their steps.
SpecAlertCalls == InitAlertCalls /\ [][NextAlertCalls]_vars

\* No call is under way.
AlertCallsAtRest ==
    \A c \in AlertThreads : alert_calls.of[c].pc \in {"idle", "done"}

\* C24: the updates of one target's alert state are serialized: once the
\* calls for a run of down outcomes are over, however they interleaved, the
\* counter is the number of those outcomes, and exactly one failure alert
\* was POSTed if it reached the threshold, none otherwise.
C24_ConcurrentOutcomesSerialized ==
    (AlertCallsAtRest /\ alert_calls.ups = 0)
    => /\ urls[1].consecutive_failures = alert_calls.downs
       /\ alert_calls.failure_posts =
             IF alert_calls.downs >= failure_threshold THEN 1 ELSE 0

(***************************************************************************)
(* The interval jobs against a store that may reject any write.  An        *)
(* exception that leaves check_url in a job is caught and logged by the    *)
(* scheduler's executor (APScheduler's documented behaviour; the library   *)
(* is not in src/), and a commit that failed has rolled the Session back.  *)
(***************************************************************************)
\* The registries after start_monitoring for targets 1 and 2, each with a
\* check_frequency of 1.
TickingRegistry ==
    start_monitoring_jobs(
        start_monitoring_jobs([jobs |-> [id \in UrlIds |-> NULL], scheduler |-> {}],
                              UrlObj(1, UrlOf(1), 1), 1),
        UrlObj(2, UrlOf(2), 1), 2)

\* The monitor after start_monitoring(target 1) and start_monitoring(target
\* 2) were called at time 0 against a store that rejected every write: both
\* jobs are registered, the write of each initial check raised, no row is
\* stored. The runs are counted from here on.
InitTicks ==
    /\ AlertsAtRest
    /\ clock = 0
    /\ subsequent_requests = EmptyBag
    /\ url_statuses = <<>>
    /\ session_new = EmptyBag
    /\ store_faulty = TRUE
    /\ reg_calls = NoRegCalls
    /\ probes = NoProbes
    /\ threads = [t \in ThreadIds |->
                    IF t = 1
                    THEN Finished([IdleThread EXCEPT !.url_id = 2,
                                                     !.ph_ip = "Request Failed"], FALSE)
                    ELSE IdleThread]
    /\ runs = 0
    /\ check = [pc |-> "raised", url_id |-> 2, url |-> UrlOf(2),
                status |-> <<FailedStatus(2)>>, get_failed |-> TRUE]
    /\ url_objs = [id \in UrlIds |-> NULL]
    /\ jobs = TickingRegistry.jobs
    /\ scheduler = TickingRegistry.scheduler
    /\ call = [NoCall EXCEPT !.op = "start_monitoring", !.url_id = 2,
                             !.url_obj = <<UrlObj(2, UrlOf(2), 1)>>,
                             !.pc = "raised", !.checks = 1]
    /\ stopped = {}

\* The jobs fire as time passes; no call of the API or of the monitor is made.
NextTicks ==
    \/ \E j \in scheduler, spawn \in CheckSpawns : JobFires(j, spawn)
    \/ ClockTick
    \/ CheckGoesOn

SpecTicks == InitTicks /\ [][NextTicks]_vars

\* The job the mapping names for target `id` is in the scheduler.
Registered(id) ==
    /\ jobs[id] # NULL
    /\ \E j \in JobsFor(scheduler, id) : j.id = jobs[id][1]

C34_HistoryAppendOnly ==
    [][ /\ Len(url_statuses') >= Len(url_statuses)
        /\ SubSeq(url_statuses', 1, Len(url_statuses)) = url_statuses
        /\ IF check.pc = "record" /\ check'.pc = "returned"
           THEN /\ Len(url_statuses') = Len(url_statuses) + 1
                /\ url_statuses'[Len(url_statuses')].url_id = check.url_id
           ELSE url_statuses' = url_statuses ]_vars

\* C34's case: a check of one target has returned after a check of the
\* other, and both outcomes are in the history.
C34_Witness ==
    /\ check.pc = "returned"
    /\ Len(url_statuses) = 2
    /\ url_statuses[1].url_id # url_statuses[2].url_id
    /\ url_statuses[2].url_id = check.url_id
    /\ runs = 2

(***************************************************************************)
(* The discovery run as time passes in the calls it is blocked in.  Two of *)
(* them have no limit on their total time: subprocess.run of tshark (line  *)
(* 473) is given no timeout, and the timeout=10 of session.get (line 122)  *)
(* limits the wait for the connection and for each read of the response,   *)
(* not the download of its body (requests' documented behaviour; the       *)
(* library is not in src/), which the call reads to its end.               *)
(***************************************************************************)
\* The call thread t is blocked in goes on: tshark is still running, or
\* another part of the response body arrived within the timeout.
StillWaiting(t) ==
    LET th == threads[t] IN
    /\ \/ th.pc = "capture" /\ "parsed" \in CaptureOutcomes(th.arg_url)
       \/ th.pc = "fallback" /\ "html" \in FallbackOutcomes(th.url)
    /\ threads' = [threads EXCEPT ![t].waited = ~@]
    /\ UNCHANGED <<subsequent_requests, session_new, store_faulty, reg_calls, probes, runs, beside_discovery>>

\* A step of the discovery thread.
ThreadRuns == DiscoveryStep(1, CheckCaptures, CheckPages) \/ StillWaiting(1)

NextDiscoveryLive ==
    \/ \E url_id \in MonitoredIds, url \in TargetUrls,
          entry \in {"capture", "fallback"} :
          StartDiscovery(1, url_id, url, entry)
    \/ DiscoveryStep(1, CheckCaptures, CheckPages)
    \/ StillWaiting(1)

\* Discovery runs one after another on a thread the interpreter keeps
\* running: the thread takes a step whenever it can.
SpecDiscoveryLive ==
    InitDiscovery /\ [][NextDiscoveryLive]_vars /\ WF_vars(ThreadRuns)

\* C28: every discovery run that was started reaches its end: no discovery
\* thread runs forever.
C28_DiscoveryTerminates ==
    (threads[1].pc \notin {"idle", "done"}) ~> (threads[1].pc = "done")

(***************************************************************************)
(* network_monitor.py, start_monitoring, stop_monitoring and               *)
(* update_frequency called for target 1 on two threads at once: app.py     *)
(* runs the server with threaded=True (line 366) and every request calls   *)
(* the one NetworkMonitor (line 39).  A step per read or write of          *)
(* self.jobs and per call of the scheduler; no lock is taken anywhere in   *)
(* NetworkMonitor.  Job.remove() of a job that is no longer in the job     *)
(* store raises JobLookupError (APScheduler's documented behaviour; the    *)
(* library is not in src/).                                                *)
(***************************************************************************)
\* The calls begun at most.
MaxCalls == 2

\* What a step on the registries leaves alone.
beside_reg_calls ==
    <<alert_vars, subsequent_requests, url_statuses, session_new, store_faulty,
      probes, threads, runs, check, url_objs, call, stopped, clock>>

\* The call on thread c is at pc.
RegCallAt(c, pc) == reg_calls.of[c].pc = pc

\* The call on thread c goes to pc.
RegCallTo(c, pc) == [reg_calls EXCEPT !.of[c].pc = pc]

\* The call on thread c is over; inside update_frequency stop_monitoring
\* returns to line 601, which calls start_monitoring.
RegCallStopped(c) ==
    IF reg_calls.of[c].op = "update_frequency"
    THEN RegCallTo(c, "s_test")
    ELSE RegCallTo(c, "done")

\* A request calls start_monitoring, stop_monitoring or update_frequency
\* for target 1 on the free thread c.
RegCallBegin(c, op) ==
    /\ reg_calls.of[c].pc \in {"idle", "done", "raised"}
    /\ reg_calls.begun < MaxCalls
    /\ reg_calls' = [reg_calls EXCEPT
                       !.begun = @ + 1,
                       !.of[c] = [pc |-> CASE op = "start_monitoring" -> "s_test"
                                           [] op = "stop_monitoring" -> "t_test"
                                           [] op = "update_frequency" -> "u_test",
                                  op |-> op, job |-> 0,
                                  run |-> probes.of[c].run]]
    /\ UNCHANGED <<jobs, scheduler>>
    /\ UNCHANGED beside_reg_calls

\* update_frequency line 599: `url_obj.id in self.jobs`; without a job the
\* call returns False.
RegUpdateTest(c) ==
    /\ RegCallAt(c, "u_test")
    /\ reg_calls' = RegCallTo(c, IF jobs[1] # NULL THEN "t_test" ELSE "done")
    /\ UNCHANGED <<jobs, scheduler>>
    /\ UNCHANGED beside_reg_calls

\* stop_monitoring line 591: `url_id in self.jobs`; without a job the call
\* returns False.
RegStopTest(c) ==
    /\ RegCallAt(c, "t_test")
    /\ reg_calls' = IF jobs[1] # NULL THEN RegCallTo(c, "t_remove")
                    ELSE RegCallStopped(c)
    /\ UNCHANGED <<jobs, scheduler>>
    /\ UNCHANGED beside_reg_calls

\* start_monitoring line 573: `url_obj.id in self.jobs`.
RegStartTest(c) ==
    /\ RegCallAt(c, "s_test")
    /\ reg_calls' = RegCallTo(c, IF jobs[1] # NULL THEN "s_remove" ELSE "s_add")
    /\ UNCHANGED <<jobs, scheduler>>
    /\ UNCHANGED beside_reg_calls

\* Lines 575 and 592: self.jobs[id].remove(). The lookup raises KeyError
\* when the entry is gone by now, the removal JobLookupError when the job is.
RegRemove(c) ==
    /\ RegCallAt(c, "s_remove") \/ RegCallAt(c, "t_remove")
    /\ IF jobs[1] = NULL \/ \A j \in scheduler : j.id # jobs[1][1]
       THEN /\ reg_calls' = RegCallTo(c, "raised")
            /\ UNCHANGED scheduler
       ELSE /\ scheduler' = remove(scheduler, jobs[1][1])
            /\ reg_calls' = RegCallTo(c, IF RegCallAt(c, "s_remove")
                                         THEN "s_add" ELSE "t_del")
    /\ UNCHANGED jobs
    /\ UNCHANGED beside_reg_calls

\* Line 593: del self.jobs[url_id], a KeyError when the entry is gone by now.
RegStopDelete(c) ==
    /\ RegCallAt(c, "t_del")
    /\ IF jobs[1] = NULL
       THEN /\ reg_calls' = RegCallTo(c, "raised")
            /\ UNCHANGED jobs
       ELSE /\ jobs' = [jobs EXCEPT ![1] = NULL]
            /\ reg_calls' = RegCallStopped(c)
    /\ UNCHANGED scheduler
    /\ UNCHANGED beside_reg_calls

\* Lines 578-583: scheduler.add_job; the job's id is fresh.
RegStartAdd(c, check_frequency) ==
    /\ RegCallAt(c, "s_add")
    /\ scheduler' = add_job(scheduler, reg_calls.added + 1,
                            UrlObj(1, UrlOf(1), check_frequency))
    /\ reg_calls' = [reg_calls EXCEPT !.added = @ + 1,
                                      !.of[c].job = reg_calls.added + 1,
                                      !.of[c].pc = "s_map"]
    /\ UNCHANGED jobs
    /\ UNCHANGED beside_reg_calls

\* Line 584: self.jobs[url_obj.id] = job.
RegStartMap(c) ==
    /\ RegCallAt(c, "s_map")
    /\ jobs' = [jobs EXCEPT ![1] = <<reg_calls.of[c].job>>]
    /\ reg_calls' = RegCallTo(c, "check")
    /\ UNCHANGED scheduler
    /\ UNCHANGED beside_reg_calls

\* Line 587: the initial check has not been started by the call on thread c.
RegCheckDue(c) ==
    RegCallAt(c, "check") /\ probes.of[c].run = reg_calls.of[c].run

\* Line 587: check_url has returned, or has raised, and so does the call.
RegCallReturns(c) ==
    /\ RegCallAt(c, "check")
    /\ probes.of[c].run # reg_calls.of[c].run
    /\ probes.of[c].pc \in {"returned", "raised"}
    /\ reg_calls' = RegCallTo(c, IF probes.of[c].pc = "raised"
                                 THEN "raised" ELSE "done")
    /\ UNCHANGED <<jobs, scheduler>>
    /\ UNCHANGED beside_reg_calls

\* No call is between its first test of self.jobs and its last step on the
\* registries.
RegistriesQuiet ==
    \A c \in RegThreads :
        reg_calls.of[c].pc \in {"idle", "done", "raised", "check"}

\* No check and no discovery is under way.
ChecksQuiet ==
    /\ \A p \in ProbeIds : ~ProbeRunning(p)
    /\ \A t \in ThreadIds : threads[t].pc \in {"idle", "done"}

\* Requests for target 1 served on two threads, each call of the monitor a
\* step at a time, with the initial checks and their discoveries. The steps
\* of a check and of a discovery read and write neither registry, and the
\* steps on the registries nothing else: every interleaving of the two
\* kinds leaves the registries as one does in which the checks and
\* discoveries move while the registries are quiet, a check starting when
\* the one before it and its discovery are over; those are taken here.
NextRegCalls ==
    \/ \E c \in RegThreads,
          op \in {"start_monitoring", "stop_monitoring", "update_frequency"} :
          RegCallBegin(c, op)
    \/ \E c \in RegThreads : RegUpdateTest(c)
    \/ \E c \in RegThreads : RegStopTest(c)
    \/ \E c \in RegThreads : RegStartTest(c)
    \/ \E c \in RegThreads : RegRemove(c)
    \/ \E c \in RegThreads : RegStopDelete(c)
    \/ \E c \in RegThreads, check_frequency \in Frequencies :
          RegStartAdd(c, check_frequency)
    \/ \E c \in RegThreads : RegStartMap(c)
    \/ \E c \in RegThreads, spawn \in CheckSpawns :
          /\ RegistriesQuiet /\ ChecksQuiet /\ RegCheckDue(c)
          /\ ProbeStart(c, 1, UrlOf(1), c, spawn)
    \/ \E p \in ProbeIds, raises \in BOOLEAN, status_code \in CheckStatusCodes,
          response_time \in ResponseTimes, fails \in StoreFaults :
          RegistriesQuiet /\ ProbeGet(p, raises, status_code, response_time, fails)
    \/ \E p \in ProbeIds, fails \in StoreFaults :
          RegistriesQuiet /\ ProbeWake(p, fails)
    \/ \E c \in RegThreads : RegCallReturns(c)
    \/ \E t \in ThreadIds :
          RegistriesQuiet /\ DiscoveryStep(t, JobCaptures, JobPages)

SpecRegCalls == InitDiscovery /\ [][NextRegCalls]_vars

\* No call of the monitor is under way.
RegCallsAtRest ==
    \A c \in RegThreads : reg_calls.of[c].pc \in {"idle", "done", "raised"}

\* C37: whatever way concurrent calls of start_monitoring, stop_monitoring
\* and update_frequency for one target interleave, once they are over every
\* job in the scheduler is the one the jobs mapping records for its target:
\* no job of a target goes on firing beside the mapping.
C37_RegistriesAgreeUnderConcurrency ==
    RegCallsAtRest => \A j \in scheduler : jobs[j.url_id] = <<j.id>>

=============================================================================
